---- MODULE Spec2Model ----
(***************************************************************************)
(* Urban Jungle rules plugin: the dice rollers (dicerollers.js), the       *)
(* initiative threshold and group rules, the ordering key, the turn order, *)
(* resetAll and rollInitiative of urbanjungleCombat (combat.js), and the   *)
(* condition functions on the local backend (conditions.js).               *)
(*                                                                         *)
(* A formula handed to Roll is a comma separated pool; it is modelled as   *)
(* the sequence of its terms, a term being a die ("1d6") or a number       *)
(* literal ("4").  Evaluating a die draws a face from the randomness       *)
(* source, evaluating a literal yields the literal.                        *)
(***************************************************************************)
EXTENDS Integers, Sequences, FiniteSets, TLC

VARIABLES
    message,     \* the chat record handed to the latest copy call (NoMessage after a fresh roll)
    ret,         \* what the latest dice roller call returned
    draws,       \* dice the latest call drew from the randomness source
    created,     \* chat records the latest call created
    op,          \* the latest call and its arguments
    combatants,  \* the encounter's combatants, by slot
    settings,    \* the Combat.CONFIG_SETTING blob
    out,         \* what the latest static call of urbanjungleCombat returned
    dist,        \* the distances handed to getDistanceTN and its answers
    keyed,       \* an initiative roll and the individual ordering key made from it
    sorting,     \* a combatant collection and the turn order made from it
    encounter,   \* the Combat document: turn, initiative and flags of its combatants
    round,       \* what the latest rollInitiative / resetAll call did
    effects,     \* the ActiveEffects of the target actor
    cond,        \* the latest condition call and what it returned
    chat,        \* the chat log and the user looking at it
    dialog,      \* the Dialog on screen and what its promise resolved to
    host         \* game.ready and the condition calls under way

vars == <<message, ret, draws, created, op, combatants, settings, out, dist,
          keyed, sorting, encounter, round, effects, cond, chat, dialog, host>>

diceVars == <<message, ret, draws, created, op>>
combatVars == <<combatants, settings, out>>
initiativeVars == <<keyed, sorting, encounter, round>>
conditionVars == <<effects, cond>>
chatVars == <<chat, dialog>>

(***************************************************************************)
(* Bounds of the explored inputs                                           *)
(***************************************************************************)
MaxDice == 2          \* dice in one rolled pool
MaxTN == 3            \* target numbers 1..MaxTN
MaxCombatants == 3    \* combatants in the encounter
MaxDistance == 104    \* distances 0..MaxDistance given to getDistanceTN
MaxKeyDice == 2       \* dice in an initiative pool whose ordering key is computed
MaxSorted == 2        \* combatants of a collection handed to the sort
MaxRollers == 2       \* combatants of an encounter that rolls initiative

\* die sizes the explored pools are built from (formRoll accepts d12..d4)
InputSizes == {6, 4}

\* die sizes of the initiative pools whose ordering key is computed: the
\* smallest and the largest die
KeySizes == {12, 4}

(***************************************************************************)
(* JavaScript values                                                       *)
(***************************************************************************)
Null == [kind |-> "null"]
Undefined == [kind |-> "undefined"]

Max(S) == CHOOSE x \in S : \A y \in S : y <= x
Min(S) == CHOOSE x \in S : \A y \in S : x <= y

(***************************************************************************)
(* dicerollers.js                                                          *)
(***************************************************************************)
DieSizes == <<12, 10, 8, 6, 4>>

Die(n) == [die |-> TRUE, n |-> n]
Lit(v) == [die |-> FALSE, n |-> v]

Rep(k, t) == [i \in 1..k |-> t]

\* the comma separated "1dN" terms, largest die first
formRoll(d12, d10, d8, d6, d4) ==
    Rep(d12, Die(12)) \o Rep(d10, Die(10)) \o Rep(d8, Die(8))
        \o Rep(d6, Die(6)) \o Rep(d4, Die(4))

\* (variant: the empty formula is not rejected)
IsEmptyFormulaNever(rollstring) == FALSE

\* rollstring.length == 0
IsEmptyFormula(rollstring) == Len(rollstring) = 0

\* Roll.evaluate on a pool: every possible sequence of results
RECURSIVE Evaluate(_)
Evaluate(terms) ==
    IF terms = <<>> THEN {<<>>}
    ELSE LET h == Head(terms)
             faces == IF h.die THEN 1..h.n ELSE {h.n}
         IN  {<<v>> \o r : v \in faces, r \in Evaluate(Tail(terms))}

\* number of dice of a formula that are drawn from the randomness source
NumDrawn(terms) == Cardinality({i \in DOMAIN terms : terms[i].die})

\* (variant: a result equal to tni counted as a success too)
MarkSuccessesGE(results, tni) == [i \in DOMAIN results |-> results[i] >= tni]

\* the "cs>tni" modifier marks every result above tni as a success
MarkSuccesses(results, tni) == [i \in DOMAIN results |-> results[i] > tni]

\* the total of a "cs" roll is the number of marked results
CountMarked(marks) == Cardinality({i \in DOMAIN marks : marks[i]})

\* the "kh1" modifier: the roll total is the highest result (0 for no results)
KeepHighest(results) == Max({0} \cup {results[i] : i \in DOMAIN results})

\* the forEach of rollTargetNumber / copyToRollTN over the results
RECURSIVE ScanTN(_, _, _)
ScanTN(results, tni, acc) ==
    IF results = <<>> THEN acc
    ELSE LET x == Head(results)
         IN  ScanTN(Tail(results), tni,
                    [ties    |-> IF x = tni THEN acc.ties + 1 ELSE acc.ties,
                     highest |-> IF x > acc.highest THEN x ELSE acc.highest,
                     hasOne  |-> IF x = 1 THEN TRUE ELSE acc.hasOne])

ScanStart == [ties |-> 0, highest |-> 0, hasOne |-> FALSE]

\* results.some(x => x.result === 1)
SomeOne(results) == \E i \in DOMAIN results : results[i] = 1

\* (variant: ties looked at before the botch)
flavorStringTNTieFirst(successes, ties, botched) ==
    IF successes > 0 THEN [class |-> "success", n |-> successes]
    ELSE IF ties > 0 THEN [class |-> "tie", n |-> ties]
    ELSE IF botched THEN [class |-> "botch", n |-> 0]
    ELSE [class |-> "failure", n |-> 0]

\* the result paragraph of the flavor text
flavorStringTN(successes, ties, botched) ==
    IF successes > 0 THEN [class |-> "success", n |-> successes]
    ELSE IF botched THEN [class |-> "botch", n |-> 0]
    ELSE IF ties > 0 THEN [class |-> "tie", n |-> ties]
    ELSE [class |-> "failure", n |-> 0]

flavorStringHighest(highest) ==
    [class |-> IF highest > 1 THEN "normal" ELSE "botch", n |-> highest]

\* (variant: the trailing slice cuts the last result instead of the comma)
copyDicePoolResultShort(roll) ==
    [i \in 1..(Len(roll.results) - 1) |-> Lit(roll.results[i])]

\* the old results as number literals
copyDicePoolResult(roll) ==
    [i \in DOMAIN roll.results |-> Lit(roll.results[i])]

\* (variant: onefound never set, every "1" is rolled again)
copyRerollHighestOneAll(roll) ==
    [i \in DOMAIN roll.results |->
        IF roll.results[i] = 1 THEN roll.terms[i] ELSE Lit(roll.results[i])]

\* the old results as number literals, the first "1" as the pool term it came from
copyRerollHighestOne(roll) ==
    LET ones == {i \in DOMAIN roll.results : roll.results[i] = 1}
    IN  [i \in DOMAIN roll.results |->
            IF ones # {} /\ i = Min(ones) THEN roll.terms[i] ELSE Lit(roll.results[i])]

TNRoll(terms, tni, results) ==
    [terms |-> terms, mod |-> "cs", tn |-> tni, results |-> results,
     success |-> MarkSuccesses(results, tni),
     total |-> CountMarked(MarkSuccesses(results, tni))]

HighRoll(terms, results) ==
    [terms |-> terms, mod |-> "kh", tn |-> 0, results |-> results,
     success |-> [i \in DOMAIN results |-> FALSE],
     total |-> KeepHighest(results)]

Flags(rollType, original, hasOne) ==
    [rollType |-> rollType, label |-> "string", originalRoll |-> original, hasOne |-> hasOne]

ChatMessage(roll, flavor, flags) ==
    [type |-> "ROLL", roll |-> roll, flavor |-> flavor, flags |-> flags]

\* the DiceReturn of the target number rollers
TNReturn(terms, tni, results, original, sendinchat) ==
    LET roll == TNRoll(terms, tni, results)
        scan == ScanTN(results, tni, ScanStart)
        flavor == flavorStringTN(roll.total, scan.ties, scan.highest = 1)
    IN  [kind |-> "DiceReturn", roll |-> roll, highest |-> scan.highest,
         tnData |-> [successes |-> roll.total, ties |-> scan.ties],
         message |-> ChatMessage(roll, flavor, Flags("TN", original, scan.hasOne)),
         isSent |-> sendinchat]

\* the DiceReturn of the highest die rollers
HighReturn(terms, results, original, sendinchat) ==
    LET roll == HighRoll(terms, results)
        flavor == flavorStringHighest(roll.total)
    IN  [kind |-> "DiceReturn", roll |-> roll, highest |-> roll.total,
         tnData |-> Null,
         message |-> ChatMessage(roll, flavor, Flags("HIGH", original, SomeOne(results))),
         isSent |-> sendinchat]

NoMessage == [type |-> "NONE"]
\* chat records the rollers did not make: plain text, and a host roll without the system's flags
TextMessage == [type |-> "OTHER"]
HostRoll(results) ==
    [type |-> "ROLL", roll |-> HighRoll(<<Die(4)>>, results), flavor |-> Null,
     flags |-> [rollType |-> "none", label |-> "undefined", originalRoll |-> FALSE, hasOne |-> FALSE]]

NoPool == <<0, 0, 0, 0, 0>>

Pools ==
    {p \in [1..5 -> 0..MaxDice] :
        /\ p[1] + p[2] + p[3] + p[4] + p[5] <= MaxDice
        /\ \A i \in 1..5 : p[i] > 0 => DieSizes[i] \in InputSizes}

TotalDice(p) == p[1] + p[2] + p[3] + p[4] + p[5]

Call(name, tni, pool, sendinchat, rerollone) ==
    [name |-> name, tni |-> tni, pool |-> pool, sendinchat |-> sendinchat, rerollone |-> rerollone]

rollTargetNumber(tni, pool, sendinchat) ==
    LET rollstring == formRoll(pool[1], pool[2], pool[3], pool[4], pool[5])
    IN  /\ op' = Call("rollTargetNumber", tni, pool, sendinchat, FALSE)
        /\ message' = NoMessage
        /\ IF IsEmptyFormula(rollstring)
           THEN ret' = Null /\ draws' = 0 /\ created' = 0
           ELSE \E results \in Evaluate(rollstring) :
                   /\ ret' = TNReturn(rollstring, tni, results, TRUE, sendinchat)
                   /\ draws' = NumDrawn(rollstring)
                   /\ created' = IF sendinchat THEN 1 ELSE 0
        /\ UNCHANGED <<combatVars, dist, initiativeVars, conditionVars, host>>

rollHighest(pool, sendinchat) ==
    LET rollstring == formRoll(pool[1], pool[2], pool[3], pool[4], pool[5])
    IN  /\ op' = Call("rollHighest", 0, pool, sendinchat, FALSE)
        /\ message' = NoMessage
        /\ IF IsEmptyFormula(rollstring)
           THEN ret' = Null /\ draws' = 0 /\ created' = 0
           ELSE \E results \in Evaluate(rollstring) :
                   /\ ret' = HighReturn(rollstring, results, TRUE, sendinchat)
                   /\ draws' = NumDrawn(rollstring)
                   /\ created' = IF sendinchat THEN 1 ELSE 0
        /\ UNCHANGED <<combatVars, dist, initiativeVars, conditionVars, host>>

\* chat records a copy call can be given: the one of the previous call, the
\* one the previous call sent to the chat, or nothing
Sources ==
    {message, NoMessage}
        \cup (IF ret.kind = "DiceReturn" /\ ret.isSent THEN {ret.message} ELSE {})

CopyFormula(src, rerollone) ==
    IF rerollone THEN copyRerollHighestOne(src.roll) ELSE copyDicePoolResult(src.roll)

\* the early returns of the copy functions
CopyRejects(src, rollstring) ==
    \/ src.type # "ROLL"
    \/ IsEmptyFormula(rollstring)
    \/ src.flags.label # "string"

copyToRollTN(tni, src, sendinchat, rerollone) ==
    LET rollstring == IF src.type = "ROLL" THEN CopyFormula(src, rerollone) ELSE <<>>
    IN  /\ op' = Call("copyToRollTN", tni, NoPool, sendinchat, rerollone)
        /\ message' = src
        /\ IF CopyRejects(src, rollstring)
           THEN ret' = Undefined /\ draws' = 0 /\ created' = 0
           ELSE \E results \in Evaluate(rollstring) :
                   /\ ret' = TNReturn(rollstring, tni, results, FALSE, sendinchat)
                   /\ draws' = NumDrawn(rollstring)
                   /\ created' = IF sendinchat THEN 1 ELSE 0
        /\ UNCHANGED <<combatVars, dist, initiativeVars, conditionVars, host>>

copyToRollHighest(src, sendinchat, rerollone) ==
    LET rollstring == IF src.type = "ROLL" THEN CopyFormula(src, rerollone) ELSE <<>>
    IN  /\ op' = Call("copyToRollHighest", 0, NoPool, sendinchat, rerollone)
        /\ message' = src
        /\ IF CopyRejects(src, rollstring)
           THEN ret' = Undefined /\ draws' = 0 /\ created' = 0
           ELSE \E results \in Evaluate(rollstring) :
                   /\ ret' = HighReturn(rollstring, results, FALSE, sendinchat)
                   /\ draws' = NumDrawn(rollstring)
                   /\ created' = IF sendinchat THEN 1 ELSE 0
        /\ UNCHANGED <<combatVars, dist, initiativeVars, conditionVars, host>>

\* A fresh roll reads nothing of the state, so its outcomes are the same
\* from every state; they are explored from the states no roller has left yet.
FreshSession == op.name = "none"

RollTN ==
    /\ FreshSession
    /\ \E tni \in 1..MaxTN, pool \in Pools, s \in BOOLEAN : rollTargetNumber(tni, pool, s)
    /\ UNCHANGED chatVars
RollHigh ==
    /\ FreshSession
    /\ \E pool \in Pools, s \in BOOLEAN : rollHighest(pool, s)
    /\ UNCHANGED chatVars
\* the chat log context menu calls the copy functions with sendinchat = true
CopyTN ==
    /\ \E tni \in 1..MaxTN, src \in Sources, r \in BOOLEAN : copyToRollTN(tni, src, TRUE, r)
    /\ UNCHANGED chatVars
CopyHigh ==
    /\ \E src \in Sources, r \in BOOLEAN : copyToRollHighest(src, TRUE, r)
    /\ UNCHANGED chatVars

\* no static call made yet
NoCall == [fn |-> "none", id |-> 0, value |-> 0]

\* no initiative round and no condition call under way
NoKey == keyed = Null
NoSort == sorting = Null
NoRound == encounter = Null /\ round = Null
NoConditions == effects = Null /\ cond = Null
NoChat == chat = Null /\ dialog = Null
NoHost == host = Null

NoCombat ==
    /\ combatants = <<>> /\ settings = Null /\ out = NoCall /\ dist = Null
    /\ NoKey /\ NoSort /\ NoRound /\ NoConditions /\ NoChat /\ NoHost

InitDice ==
    /\ message \in {NoMessage, TextMessage} \cup {HostRoll(r) : r \in Evaluate(<<Die(4)>>)}
    /\ ret = Undefined
    /\ draws = 0
    /\ created = 0
    /\ op = Call("none", 0, NoPool, FALSE, FALSE)
    /\ NoCombat

NextDice == RollTN \/ RollHigh \/ CopyTN \/ CopyHigh

SpecDice == InitDice /\ [][NextDice]_vars

(***************************************************************************)
(* combat.js: urbanjungleCombat                                            *)
(***************************************************************************)
Bool(b) == [kind |-> "boolean", v |-> b]
Num(k) == [kind |-> "number", v |-> k]

\* JavaScript truthiness of the initType setting
Truthy(x) == x.kind = "number" /\ x.v # 0

\* parseInt(settings.initType)
ParseInt(x) == x.v

\* x === k for a number k
StrictEqNum(x, k) == x.kind = "number" /\ x.v = k

\* b == k for a boolean b and a number k: the boolean is converted to 0 or 1
LooseEqBoolNum(b, k) == (IF b THEN 1 ELSE 0) = k

FRIENDLY == "FRIENDLY"
HOSTILE == "HOSTILE"

\* where the token of each slot stands
TokenX == <<0, 3, 15, 120, 60>>

Abs(x) == IF x < 0 THEN -x ELSE x

\* canvas.grid.measureDistance
measureDistance(a, b) == Abs(a.x - b.x)

HasActor(c) == c.actor # Null
HasToken(c) == c.token # Null

\* x?.actor?.hasPlayerOwner
OwnerOf(x) == IF HasActor(x) THEN Bool(x.actor.hasPlayerOwner) ELSE Undefined

\* x?.actor?.hasPlayerOwner || x?.token?.data?.disposition === FRIENDLY
OwnerOrFriendly(x) ==
    IF HasActor(x) /\ x.actor.hasPlayerOwner THEN Bool(TRUE)
    ELSE Bool(HasToken(x) /\ x.token.disposition = FRIENDLY)

\* (variant: the two friendly-inclusive modes decided by the owner flag alone)
getInitiativeGroupOwnerTable(combatant, sett) ==
    IF HasActor(combatant) /\ HasToken(combatant) /\ Truthy(sett.initType)
    THEN LET owner == combatant.actor.hasPlayerOwner
         IN  IF ParseInt(sett.initType) \in {0, 2, 4}
             THEN (IF owner THEN 2 ELSE 1) ELSE (IF owner THEN 1 ELSE 2)
    ELSE -1

getInitiativeGroup(combatant, sett) ==
    IF HasActor(combatant) /\ HasToken(combatant) /\ Truthy(sett.initType)
    THEN LET initType == ParseInt(sett.initType)
             owner == combatant.actor.hasPlayerOwner
             friendly == combatant.token.disposition = FRIENDLY
         IN  CASE initType \in {0, 1} ->
                    LET side == IF owner THEN 1 ELSE 0
                    IN  IF initType = 0 THEN (IF side = 1 THEN 2 ELSE 1)
                        ELSE (IF side = 0 THEN 2 ELSE 1)
               [] initType \in {2, 3} ->
                    LET side == IF owner \/ friendly THEN 1 ELSE 0
                    IN  IF initType = 2 THEN (IF side = 1 THEN 2 ELSE 1)
                        ELSE (IF side = 0 THEN 2 ELSE 1)
               [] initType \in {4, 5} ->
                    LET side == IF owner THEN 1 ELSE (IF friendly THEN 2 ELSE 0)
                    IN  IF initType = 4 THEN (IF side = 1 THEN 3 ELSE (IF side = 2 THEN 2 ELSE 1))
                        \* side == side == 0 compares the boolean (side == side) with 0
                        ELSE (IF LooseEqBoolNum(side = side, 0) THEN 3
                              ELSE (IF side = 1 THEN 2 ELSE 1))
               [] OTHER -> -1
    ELSE -1

\* the distance no token is closer than
FarAway == 10000

\* (variant: the search for the closest token starts at distance 0)
getDistanceToClosestOtherFromZero(combatant, othercombatants) == 0

getDistanceToClosestOther(combatant, othercombatants) ==
    IF HasToken(combatant)
    THEN Min({FarAway} \cup
             {measureDistance(combatant.token, x.token) :
                 x \in {y \in othercombatants : HasToken(y)}})
    ELSE FarAway

\* (variant: the second breakpoint tested with < instead of <=)
getDistanceTNStrict(distance) ==
    IF distance <= 4 THEN 2
    ELSE IF distance < 12 THEN 3
    ELSE IF distance <= 36 THEN 4
    ELSE IF distance <= 100 THEN 5
    ELSE 6

getDistanceTN(distance) ==
    IF distance <= 4 THEN 2
    ELSE IF distance <= 12 THEN 3
    ELSE IF distance <= 36 THEN 4
    ELSE IF distance <= 100 THEN 5
    ELSE 6

\* the otherSide filter of getInitiativeTN
OtherSide(combatant, allcombatants, sett) ==
    IF StrictEqNum(sett.initType, 0) \/ StrictEqNum(sett.initType, 1)
    THEN {x \in allcombatants : OwnerOf(x) # Bool(combatant.actor.hasPlayerOwner)}
    ELSE {x \in allcombatants : OwnerOrFriendly(x) # OwnerOrFriendly(combatant)}

getInitiativeTN(combatant, allcombatants, sett) ==
    IF sett.manualTN > 0 THEN sett.manualTN
    ELSE IF HasActor(combatant) /\ HasToken(combatant) /\ Truthy(sett.initType)
    THEN getDistanceTN(getDistanceToClosestOther(combatant,
                            OtherSide(combatant, allcombatants, sett)))
    ELSE 2

\* the combatants of the encounter
All == {combatants[i] : i \in DOMAIN combatants}

GetInitiativeTN(i) ==
    /\ out' = [fn |-> "getInitiativeTN", id |-> i,
               value |-> getInitiativeTN(combatants[i], All, settings)]
    /\ UNCHANGED <<diceVars, combatants, settings, dist, initiativeVars, conditionVars, chatVars, host>>

GetInitiativeGroup(i) ==
    /\ out' = [fn |-> "getInitiativeGroup", id |-> i,
               value |-> getInitiativeGroup(combatants[i], settings)]
    /\ UNCHANGED <<diceVars, combatants, settings, dist, initiativeVars, conditionVars, chatVars, host>>

GetDistanceTN ==
    /\ dist.tn = <<>>
    /\ dist' = [dist EXCEPT !.tn = [i \in DOMAIN dist.d |-> getDistanceTN(dist.d[i])]]
    /\ UNCHANGED <<diceVars, combatVars, initiativeVars, conditionVars, chatVars, host>>

Actors == {Null, [hasPlayerOwner |-> TRUE], [hasPlayerOwner |-> FALSE]}
Tokens(i) == {Null, [disposition |-> FRIENDLY, x |-> TokenX[i]],
                    [disposition |-> HOSTILE, x |-> TokenX[i]]}

\* getInitiativeOptions: PCvsNPC, NPCvsPC, alliesVsEnemies, enemiesVsAllies,
\* pcsAlliesEnemies, enemiesPcsAllies
InitTypes == 0..5

\* the setting as _updateObject stored it from the form, or absent while the
\* configuration was never saved
InitTypeValues == {Undefined} \cup {Num(k) : k \in InitTypes}

Settings ==
    [sideBased : {TRUE}, skipDefeated : {FALSE},
     initType : InitTypeValues, manualTN : {0, MaxTN}]

NoDice ==
    /\ message = NoMessage /\ ret = Undefined /\ draws = 0 /\ created = 0
    /\ op = Call("none", 0, NoPool, FALSE, FALSE)

InitSides ==
    /\ NoDice
    /\ combatants \in {c \in [1..MaxCombatants -> [id : 1..MaxCombatants, actor : Actors,
                                                  token : UNION {Tokens(i) : i \in 1..MaxCombatants}]] :
                          \A i \in 1..MaxCombatants :
                              c[i].id = i /\ c[i].token \in Tokens(i)}
    /\ settings \in Settings
    /\ out = NoCall
    /\ dist = Null
    /\ NoKey /\ NoSort /\ NoRound /\ NoConditions /\ NoChat /\ NoHost

NextSides ==
    \/ \E i \in DOMAIN combatants : GetInitiativeTN(i)
    \/ \E i \in DOMAIN combatants : GetInitiativeGroup(i)

SpecSides == InitSides /\ [][NextSides]_vars

InitDistance ==
    /\ NoDice
    /\ combatants = <<>> /\ settings = Null /\ out = NoCall
    /\ dist \in [d : (0..MaxDistance) \X (0..MaxDistance), tn : {<<>>}]
    /\ NoKey /\ NoSort /\ NoRound /\ NoConditions /\ NoChat /\ NoHost

NextDistance == GetDistanceTN

SpecDistance == InitDistance /\ [][NextDistance]_vars

(***************************************************************************)
(* combat.js: the individual ordering key of rollInitiative                *)
(***************************************************************************)
\* initiative values are kept in twentieths, the unit of the tie-breaker
Twentieths(n) == 20 * n

\* roll.dice: the totals of the die terms of the roll, in pool order
RECURSIVE DiceTotals(_, _)
DiceTotals(terms, results) ==
    IF terms = <<>> THEN <<>>
    ELSE (IF Head(terms).die THEN <<Head(results)>> ELSE <<>>)
            \o DiceTotals(Tail(terms), Tail(results))

\* (variant: every die equal to the highest is passed over)
RECURSIVE TieBreakerSkipAll(_, _, _, _)
TieBreakerSkipAll(dice, highest, skipped, decimals) ==
    IF dice = <<>> THEN decimals
    ELSE LET x == Head(dice)
         IN  IF x = highest
             THEN TieBreakerSkipAll(Tail(dice), highest, TRUE, decimals)
             ELSE TieBreakerSkipAll(Tail(dice), highest, skipped,
                                    IF decimals < x THEN x ELSE decimals)

\* the forEach over initRoll.roll.dice: the first die equal to the highest is
\* passed over, decimals is the largest total among the others
RECURSIVE TieBreaker(_, _, _, _)
TieBreaker(dice, highest, skipped, decimals) ==
    IF dice = <<>> THEN decimals
    ELSE LET x == Head(dice)
         IN  IF ~skipped /\ x = highest
             THEN TieBreaker(Tail(dice), highest, TRUE, decimals)
             ELSE TieBreaker(Tail(dice), highest, skipped,
                             IF decimals < x THEN x ELSE decimals)

\* (variant: the tie-breaker counted in tenths)
individualInitiativeTenths(initRoll) ==
    Twentieths(initRoll.highest)
        + 2 * TieBreaker(DiceTotals(initRoll.roll.terms, initRoll.roll.results),
                         initRoll.highest, FALSE, 0)

\* initRoll.highest + (decimals / 20)
individualInitiative(initRoll) ==
    Twentieths(initRoll.highest)
        + TieBreaker(DiceTotals(initRoll.roll.terms, initRoll.roll.results),
                     initRoll.highest, FALSE, 0)

\* the initiative pools explored for the ordering key
KeyPools ==
    {p \in [1..5 -> 0..MaxKeyDice] :
        /\ p[1] + p[2] + p[3] + p[4] + p[5] \in 1..MaxKeyDice
        /\ \A i \in 1..5 : p[i] > 0 => DieSizes[i] \in KeySizes}

\* actor.initiativeRoll(2, tn): the DiceReturn of a target number roll of the
\* actor's initiative pool that is not sent to the chat
initiativeRoll(pool, tn, results) ==
    TNReturn(formRoll(pool[1], pool[2], pool[3], pool[4], pool[5]), tn, results, TRUE, FALSE)

InitiativeRolls(pool, tn) ==
    {initiativeRoll(pool, tn, results) :
        results \in Evaluate(formRoll(pool[1], pool[2], pool[3], pool[4], pool[5]))}

IndividualInitiative ==
    /\ keyed.initiative = Null
    /\ keyed' = [keyed EXCEPT !.initiative = Num(individualInitiative(keyed.initRoll))]
    /\ UNCHANGED <<diceVars, combatVars, dist, sorting, encounter, round, conditionVars, chatVars, host>>

InitKey ==
    /\ NoDice
    /\ combatants = <<>> /\ settings = Null /\ out = NoCall /\ dist = Null
    /\ keyed \in [initRoll : UNION {InitiativeRolls(pool, 3) : pool \in KeyPools},
                  initiative : {Null}]
    /\ NoSort /\ NoRound /\ NoConditions /\ NoChat /\ NoHost

NextKey == IndividualInitiative

SpecKey == InitKey /\ [][NextKey]_vars

(***************************************************************************)
(* combat.js: the turn order (_sortCombatants)                             *)
(***************************************************************************)
Str(s) == [kind |-> "string", s |-> s]
NaN == [kind |-> "NaN"]

\* the strings that read as a number, and the number they read as
NumericStrings == {"7", "12"}
NumberOf(s) == IF s = "7" THEN 7 ELSE 12

\* ToNumber: what the "-" operator makes of an operand
ToNumber(x) ==
    CASE x.kind = "number" -> x
      [] x.kind = "boolean" -> Num(IF x.v THEN 1 ELSE 0)
      [] x.kind = "string" /\ x.s \in NumericStrings -> Num(NumberOf(x.s))
      [] OTHER -> NaN

\* x - y
Minus(x, y) ==
    IF ToNumber(x) = NaN \/ ToNumber(y) = NaN THEN NaN
    ELSE Num(ToNumber(x).v - ToNumber(y).v)

\* Number.isNumeric(x.initiative) ? x.initiative : -9999
InitiativeOrLast(x) ==
    IF x.initiative.kind = "number" THEN x.initiative ELSE Num(Twentieths(-9999))

\* x.token?.actor?.hasPlayerOwner || false
TokenOwner(x) ==
    Bool(x.token # Null /\ x.token.actor # Null /\ x.token.actor.hasPlayerOwner)

\* x.token?.name || ""
TokenName(x) == IF x.token # Null THEN x.token.name ELSE ""

\* String.prototype.localeCompare on the explored names
NameOrder == <<"", "Ann", "Bob", "Cat">>
NameRank(n) == CHOOSE i \in DOMAIN NameOrder : NameOrder[i] = n
localeCompare(an, bn) ==
    IF NameRank(an) < NameRank(bn) THEN -1 ELSE IF NameRank(an) > NameRank(bn) THEN 1 ELSE 0

\* _sortCombatants
sortCombatants(a, b) ==
    LET ci == Minus(InitiativeOrLast(b), InitiativeOrLast(a))
        cpc == Minus(TokenOwner(b), TokenOwner(a))
        cn == localeCompare(TokenName(a), TokenName(b))
    IN  IF ci # Num(0) THEN ci
        ELSE IF cpc # Num(0) THEN cpc
        ELSE IF cn # 0 THEN Num(cn)
        ELSE Minus(a.tokenId, b.tokenId)

\* Array.prototype.sort reads a comparator result of NaN as +0
SortCompare(a, b) ==
    LET v == sortCombatants(a, b) IN IF v = NaN THEN 0 ELSE v.v

\* Array.prototype.sort is stable: an element goes behind the elements it
\* does not precede
RECURSIVE InsertSorted(_, _)
InsertSorted(sorted, x) ==
    IF sorted = <<>> THEN <<x>>
    ELSE IF SortCompare(Head(sorted), x) > 0 THEN <<x>> \o sorted
    ELSE <<Head(sorted)>> \o InsertSorted(Tail(sorted), x)

RECURSIVE SortedFrom(_, _)
SortedFrom(sorted, rest) ==
    IF rest = <<>> THEN sorted
    ELSE SortedFrom(InsertSorted(sorted, Head(rest)), Tail(rest))

\* Combat.setupTurns: the collection sorted with _sortCombatants
setupTurns(collection) == SortedFrom(<<>>, collection)

\* the comparator keeps the order it gives to a and b and to b and c for a and c
Precedes(a, b) == SortCompare(a, b) <= 0
Consistent(collection) ==
    \A i, j, k \in DOMAIN collection :
        (Precedes(collection[i], collection[j]) /\ Precedes(collection[j], collection[k]))
            => Precedes(collection[i], collection[k])

NotCompared == [a |-> 0, b |-> 0, value |-> Null]

\* _sortCombatants called on two combatants of the collection
SortCombatants(i, j) ==
    /\ sorting' = [sorting EXCEPT !.compared =
                      [a |-> i, b |-> j,
                       value |-> sortCombatants(sorting.collection[i], sorting.collection[j])]]
    /\ UNCHANGED <<diceVars, combatVars, dist, keyed, encounter, round, conditionVars, chatVars, host>>

SetupTurns ==
    /\ sorting.turns = Null
    /\ sorting' = [sorting EXCEPT !.turns = setupTurns(sorting.collection)]
    /\ UNCHANGED <<diceVars, combatVars, dist, keyed, encounter, round, conditionVars, chatVars, host>>

\* the combatants handed to the sort: unset, sentinel and bucket initiative,
\* tokens with and without a player owned actor, document ids as the host
\* makes them and ids that read as numbers
SortInitiatives == {Null, Num(Twentieths(-1)), Num(Twentieths(2))}
SortTokens ==
    {Null,
     [name |-> "Ann", actor |-> [hasPlayerOwner |-> TRUE]],
     [name |-> "Ann", actor |-> [hasPlayerOwner |-> FALSE]],
     [name |-> "Bob", actor |-> [hasPlayerOwner |-> FALSE]]}
SortTokenIds == {Str("7"), Str("12"), Str("aB3xK9qZ"), Str("Zk9qaB3x")}

\* sort on a comparator that is not consistent is left to the implementation:
\* such collections are not explored
InitSort ==
    /\ NoDice
    /\ combatants = <<>> /\ settings = Null /\ out = NoCall /\ dist = Null
    /\ NoKey
    /\ sorting \in
         {s \in [collection : [1..MaxSorted -> [id : 1..MaxSorted, initiative : SortInitiatives,
                                                token : SortTokens, tokenId : SortTokenIds]],
                 compared : {NotCompared}, turns : {Null}] :
             /\ \A i \in 1..MaxSorted : s.collection[i].id = i
             /\ Consistent(s.collection)}
    /\ NoRound /\ NoConditions /\ NoChat /\ NoHost

NextSort ==
    \/ \E i, j \in DOMAIN sorting.collection : SortCombatants(i, j)
    \/ SetupTurns

SpecSort == InitSort /\ [][NextSort]_vars

(***************************************************************************)
(* combat.js: resetAll and rollInitiative                                  *)
(***************************************************************************)
Ids == DOMAIN combatants

\* the Combatant document of slot i as _sortCombatants reads it
CombatantDoc(i, initiative) ==
    [id |-> i, initiative |-> initiative[i],
     token |-> IF HasToken(combatants[i])
               THEN [name |-> combatants[i].token.name, actor |-> combatants[i].actor]
               ELSE Null,
     tokenId |-> combatants[i].tokenId]

\* this.turns: the ids of the combatants in turn order
Turns(initiative) ==
    LET sorted == setupTurns([i \in Ids |-> CombatantDoc(i, initiative)])
    IN  [k \in DOMAIN sorted |-> sorted[k].id]

\* (variant: the index the turn had is kept)
FindIndexAsBefore(turns, id) == encounter.turn

\* this.turns.findIndex(t => t.id === id), counted from 0
FindIndex(turns, id) ==
    IF \E k \in DOMAIN turns : turns[k] = id
    THEN Min({k \in DOMAIN turns : turns[k] = id}) - 1
    ELSE -1

\* Combatant.getInitiativeRoll: the host's roll of CONFIG.Combat.initiative.formula, "-1"
HostInitiativeRoll ==
    [kind |-> "DiceReturn",
     roll |-> [terms |-> <<Lit(-1)>>, mod |-> "none", tn |-> 0, results |-> <<-1>>,
               success |-> <<FALSE>>, total |-> -1],
     highest |-> -1, tnData |-> Null, message |-> NoMessage, isSent |-> FALSE]

\* getInitiativeRollIronclaw(tn): every roll the combatant can make
getInitiativeRollIronclaw(combatant, tn) ==
    IF HasActor(combatant) THEN InitiativeRolls(combatant.actor.pool, tn)
    ELSE {HostInitiativeRoll}

\* the initiativeResult flag made from the roll
initResult(initRoll) ==
    IF initRoll.tnData = Null THEN Str("")
    ELSE IF initRoll.tnData.successes > 0 THEN Str(ToString(initRoll.tnData.successes))
    ELSE IF initRoll.tnData.ties > 0 THEN Str("T")
    ELSE IF initRoll.highest = 1 THEN Str("B")
    ELSE Str("F")

\* the initiative of the update entry
initiativeOf(combatant, initRoll, sett) ==
    IF sett.sideBased THEN Num(Twentieths(getInitiativeGroup(combatant, sett)))
    ELSE Num(individualInitiative(initRoll))

\* the update entry and the chat data of one processed combatant; i is the
\* position of its id in ids, counted from 0
UpdateEntry(id, initiative, result) == [id |-> id, initiative |-> initiative, result |-> result]
ChatData(i, combatant, initRoll) ==
    [speaker |-> combatant.id,
     roll |-> initRoll.roll,
     rollMode |-> IF combatant.token.hidden THEN "gmroll" ELSE "roll",
     sound |-> IF i > 0 THEN Null ELSE Str("dice")]

NoBatch == [updates |-> <<>>, messages |-> <<>>, rolled |-> <<>>, raised |-> FALSE]

\* the for loop of rollInitiative from position i of ids on: every batch of
\* update entries and chat data the dice allow.  A combatant that is owned
\* but has no token stops the call: combatant.token.name raises a TypeError
\* after its roll was made.
RECURSIVE Batches(_, _, _)
Batches(ids, i, sett) ==
    IF i >= Len(ids) THEN {NoBatch}
    ELSE LET id == ids[i + 1]
             combatant == combatants[id]
             tn == getInitiativeTN(combatant, All, sett)
         IN  IF ~combatant.isOwner THEN Batches(ids, i + 1, sett)
             ELSE IF ~HasToken(combatant)
             THEN {[NoBatch EXCEPT !.rolled = <<id>>, !.raised = TRUE]}
             ELSE {[updates |-> <<UpdateEntry(id, initiativeOf(combatant, initRoll, sett),
                                              initResult(initRoll))>> \o rest.updates,
                    messages |-> <<ChatData(i, combatant, initRoll)>> \o rest.messages,
                    rolled |-> <<id>> \o rest.rolled,
                    raised |-> rest.raised] :
                       initRoll \in getInitiativeRollIronclaw(combatant, tn),
                       rest \in Batches(ids, i + 1, sett)}

\* updateEmbeddedDocuments("Combatant", updates) on the initiative and the flags
RECURSIVE Written(_, _)
Written(docs, updates) ==
    IF updates = <<>> THEN docs
    ELSE LET u == Head(updates)
         IN  Written([initiative |-> [docs.initiative EXCEPT ![u.id] = u.initiative],
                      result |-> [docs.result EXCEPT ![u.id] = u.result]],
                     Tail(updates))

CurrentId == Turns(encounter.initiative)[encounter.turn + 1]

\* the persistence calls of a rollInitiative that has update entries, in the
\* order they are awaited
Persisted(updateTurn) ==
    <<"updateEmbeddedDocuments">> \o (IF updateTurn THEN <<"update">> ELSE <<>>) \o <<"create">>

\* a call rollInitiative awaited: of the combatant id, or of the Combat (0)
Called(call, id) == [call |-> call, id |-> id]

rollInitiative(ids, updateTurn) ==
    \E batch \in Batches(ids, 0, settings) :
        LET docs == Written([initiative |-> encounter.initiative, result |-> encounter.result],
                            batch.updates)
            turn == IF updateTurn THEN FindIndex(Turns(docs.initiative), CurrentId)
                    ELSE encounter.turn
            wrote == ~batch.raised /\ batch.updates # <<>>
        IN  /\ round' = [fn |-> "rollInitiative", ids |-> ids, updateTurn |-> updateTurn,
                         currentId |-> CurrentId,
                         raised |-> batch.raised, rolled |-> batch.rolled,
                         updates |-> batch.updates, messages |-> batch.messages,
                         log |-> IF wrote THEN Persisted(updateTurn) ELSE <<>>,
                         trace |-> [k \in DOMAIN batch.rolled |->
                                       Called("getInitiativeRollIronclaw", batch.rolled[k])]
                                   \o (IF wrote
                                       THEN [k \in DOMAIN Persisted(updateTurn) |->
                                                Called(Persisted(updateTurn)[k], 0)]
                                       ELSE <<>>)]
            /\ encounter' = IF wrote
                            THEN [turn |-> turn, initiative |-> docs.initiative,
                                  result |-> docs.result, chat |-> batch.messages]
                            ELSE encounter
            /\ UNCHANGED <<diceVars, combatVars, dist, keyed, sorting, conditionVars, chatVars, host>>

\* (variant: the reset clears the initiative and leaves the flags)
resetAllKeepsResult ==
    /\ round' = [fn |-> "resetAll", ids |-> <<>>, updateTurn |-> FALSE, raised |-> FALSE,
                 currentId |-> 0,
                 rolled |-> <<>>,
                 updates |-> [i \in Ids |-> UpdateEntry(i, Null, Null)],
                 messages |-> <<>>, log |-> <<"updateEmbeddedDocuments", "update">>,
                 trace |-> <<Called("updateEmbeddedDocuments", 0), Called("update", 0)>>]
    /\ encounter' = [encounter EXCEPT !.turn = 0, !.initiative = [i \in Ids |-> Null]]
    /\ UNCHANGED <<diceVars, combatVars, dist, keyed, sorting, conditionVars, chatVars, host>>

resetAll ==
    /\ round' = [fn |-> "resetAll", ids |-> <<>>, updateTurn |-> FALSE, raised |-> FALSE,
                 currentId |-> 0,
                 rolled |-> <<>>,
                 updates |-> [i \in Ids |-> UpdateEntry(i, Null, Null)],
                 messages |-> <<>>, log |-> <<"updateEmbeddedDocuments", "update">>,
                 trace |-> <<Called("updateEmbeddedDocuments", 0), Called("update", 0)>>]
    /\ encounter' = [encounter EXCEPT !.turn = 0,
                                      !.initiative = [i \in Ids |-> Null],
                                      !.result = [i \in Ids |-> Null]]
    /\ UNCHANGED <<diceVars, combatVars, dist, keyed, sorting, conditionVars, chatVars, host>>

\* the combatants of the explored encounters: a player character the caller
\* owns, a foe the caller does not own, a hidden token without an actor and
\* an actor whose token is gone, both owned by the caller
OnePool == <<0, 0, 0, 0, 1>>
RoundToken(i, disposition, hidden) ==
    [disposition |-> disposition, x |-> TokenX[i], name |-> NameOrder[i + 1], hidden |-> hidden]
RoundTokenId(i) == Str(<<"aB3xK9qZ", "Zk9qaB3x", "Qz7LmN2p", "Rw5TyU8v">>[i])
Roller(i, actor, token, isOwner) ==
    [id |-> i, actor |-> actor, token |-> token, isOwner |-> isOwner, tokenId |-> RoundTokenId(i)]
PlayerCharacter(i) ==
    Roller(i, [hasPlayerOwner |-> TRUE, pool |-> OnePool], RoundToken(i, FRIENDLY, FALSE), TRUE)
Foe(i) ==
    Roller(i, [hasPlayerOwner |-> FALSE, pool |-> OnePool], RoundToken(i, HOSTILE, FALSE), FALSE)
NoActor(i) == Roller(i, Null, RoundToken(i, HOSTILE, TRUE), TRUE)
NoToken(i) == Roller(i, [hasPlayerOwner |-> FALSE, pool |-> OnePool], Null, TRUE)
Rollers(i) ==
    IF i = 1 THEN {PlayerCharacter(i), Foe(i), NoActor(i)}
    ELSE IF i = 2 THEN {PlayerCharacter(i), Foe(i), NoToken(i)}
    ELSE {Foe(i)}

\* team mode with and without an ordering mode, individual mode with a
\* manual threshold
RoundSettings ==
    {[sideBased |-> TRUE, skipDefeated |-> FALSE, initType |-> Num(2), manualTN |-> 0],
     [sideBased |-> TRUE, skipDefeated |-> FALSE, initType |-> Undefined, manualTN |-> 0],
     [sideBased |-> FALSE, skipDefeated |-> FALSE, initType |-> Num(2), manualTN |-> 1]}

\* the id lists handed to rollInitiative: no id twice
IdLists ==
    UNION {{ids \in [1..n -> Ids] : \A i, j \in 1..n : i # j => ids[i] # ids[j]} :
              n \in 0..Cardinality(Ids)}

\* an encounter nobody has rolled in, and no call made on it yet
NewEncounter ==
    [turn |-> 0, initiative |-> [i \in 1..MaxRollers |-> Null],
     result |-> [i \in 1..MaxRollers |-> Undefined], chat |-> <<>>]
NoRoundCall ==
    [fn |-> "none", ids |-> <<>>, updateTurn |-> FALSE, raised |-> FALSE, currentId |-> 0,
     rolled |-> <<>>, updates |-> <<>>, messages |-> <<>>, log |-> <<>>, trace |-> <<>>]

InitRound ==
    /\ NoDice
    /\ combatants \in {c \in [1..MaxRollers -> UNION {Rollers(i) : i \in 1..MaxRollers}] :
                          \A i \in 1..MaxRollers : c[i] \in Rollers(i)}
    /\ settings \in RoundSettings
    /\ out = NoCall /\ dist = Null
    /\ NoKey /\ NoSort
    /\ encounter = NewEncounter
    /\ round = NoRoundCall
    /\ NoConditions /\ NoChat /\ NoHost

\* the host's callers leave updateTurn at its default; a caller that keeps
\* the turn is explored with one id
RollInitiative == \E ids \in IdLists : rollInitiative(ids, TRUE)
RollInitiativeKeepTurn == \E id \in Ids : rollInitiative(<<id>>, FALSE)
ResetAll == resetAll

NextRound == RollInitiative \/ RollInitiativeKeepTurn \/ ResetAll

SpecRound == InitRound /\ [][NextRound]_vars

(***************************************************************************)

(* conditions.js: the condition functions on the local backend             *)
(***************************************************************************)
\* a string spelled out, for the functions that look into it
Spell(s) ==
    CASE s = "hurt" -> <<"h", "u", "r", "t">>
      [] s = "dying" -> <<"d", "y", "i", "n", "g">>
      [] s = "onfire" -> <<"o", "n", "f", "i", "r", "e">>

\* CommonConditionInfo.conditionList: three of its entries, in list order
conditionList ==
    <<[id |-> "hurt", label |-> "urbanjungle.effect.status.hurt", icon |-> "icons/svg/acid.svg"],
      [id |-> "dying", label |-> "urbanjungle.effect.status.dying",
       icon |-> "systems/urbanjungle/icons/status/dying.svg"],
      [id |-> "onfire", label |-> "urbanjungle.effect.status.onfire", icon |-> "icons/svg/fire.svg"]>>

\* a string argument and an array argument
Single(s) == [kind |-> "string", a |-> <<s>>]
Array(a) == [kind |-> "array", a |-> a]

\* Array.isArray(conditions) ? conditions : [conditions]
AsArray(conditions) == conditions.a
Includes(a, s) == \E i \in DOMAIN a : a[i] = s

\* getMatchedConditions with an array: the list entries whose id is in it
MatchedOfArray(conditions) ==
    SelectSeq(conditionList, LAMBDA entry : Includes(conditions, entry.id))

\* getTargetActor: the actor of an Actor or a Token, null for anything else
TheActor == [kind |-> "Actor"]
getTargetActor(target) == IF target \in {"Actor", "Token"} THEN TheActor ELSE Null

\* x.data.flags?.core?.statusId of an effect, if it has one
HasStatus(effect, conditions) == effect.flagged /\ Includes(conditions, effect.statusId)

hasConditionsIronclaw(conditions, target) ==
    /\ getTargetActor(target) # Null
    /\ \E i \in DOMAIN effects : HasStatus(effects[i], AsArray(conditions))

\* prepareEffects: the effect data made from a list entry
prepareEffects(entries) ==
    [i \in DOMAIN entries |-> [statusId |-> entries[i].id, flagged |-> TRUE, label |-> entries[i].label]]

\* (variant: the conditions the target already has are not filtered out)
usedconditionsUnfiltered(conditions, target) == AsArray(conditions)

\* the conditions left to add
usedconditions(conditions, target) ==
    IF hasConditionsIronclaw(conditions, target)
    THEN SelectSeq(AsArray(conditions),
                   LAMBDA x : ~\E i \in DOMAIN effects :
                                  effects[i].flagged /\ effects[i].statusId = x)
    ELSE AsArray(conditions)

CondCall(fn, conditions, target, checkfirst, writes, returned) ==
    [fn |-> fn, conditions |-> conditions, target |-> target, checkfirst |-> checkfirst,
     writes |-> writes, returned |-> returned]

addConditionsIronclaw(conditions, target) ==
    IF getTargetActor(target) = Null
    THEN /\ cond' = CondCall("add", conditions, target, FALSE, 0, Bool(FALSE))
         /\ UNCHANGED effects
    ELSE LET new == prepareEffects(MatchedOfArray(usedconditions(conditions, target)))
         IN  /\ effects' = effects \o new
             /\ cond' = CondCall("add", conditions, target, FALSE,
                                 IF Len(new) > 0 THEN 1 ELSE 0, Undefined)

removeConditionsIronclaw(conditions, target, checkfirst) ==
    IF getTargetActor(target) = Null
    THEN /\ cond' = CondCall("remove", conditions, target, checkfirst, 0, Bool(FALSE))
         /\ UNCHANGED effects
    ELSE LET removals == {i \in DOMAIN effects : HasStatus(effects[i], AsArray(conditions))}
         IN  /\ effects' = SelectSeq(effects, LAMBDA e : ~HasStatus(e, AsArray(conditions)))
             /\ cond' = CondCall("remove", conditions, target, checkfirst,
                                 IF removals # {} THEN 1 ELSE 0, Undefined)

\* String.prototype.toLowerCase, letter by letter
Uppers == <<"A", "B", "C", "D", "E", "F", "G", "H", "I", "J", "K", "L", "M",
            "N", "O", "P", "Q", "R", "S", "T", "U", "V", "W", "X", "Y", "Z">>
Lowers == <<"a", "b", "c", "d", "e", "f", "g", "h", "i", "j", "k", "l", "m",
            "n", "o", "p", "q", "r", "s", "t", "u", "v", "w", "x", "y", "z">>
toLowerCase(letters) ==
    [i \in DOMAIN letters |->
        IF \E k \in DOMAIN Uppers : Uppers[k] = letters[i]
        THEN Lowers[CHOOSE k \in DOMAIN Uppers : Uppers[k] = letters[i]]
        ELSE letters[i]]

\* makeStatCompareReady: the name in lower case without its spaces
makeStatCompareReady(name) == SelectSeq(toLowerCase(name), LAMBDA c : c # " ")

\* getMatchedConditions with a string: the result of find, pushed whatever it is
MatchedOfString(name) ==
    LET found == {i \in DOMAIN conditionList : Spell(conditionList[i].id) = name}
    IN  <<IF found # {} THEN conditionList[Min(found)] ELSE Undefined>>

\* condition?.data?.label || condition
NameOf(condition) == condition.letters

getConditionByNameIronclaw(condition) ==
    LET name == makeStatCompareReady(NameOf(condition))
        matches == MatchedOfString(name)
    IN  /\ cond' = CondCall("byId", condition, "none", FALSE, 0,
                            IF Len(matches) > 0 THEN Head(matches) ELSE Null)
        /\ UNCHANGED effects

\* the arguments explored: a condition as a string, arrays with an id twice
\* and with an id that is not in the list
ConditionArgs ==
    {Single("hurt"), Single("nosuch"), Array(<<>>), Array(<<"hurt">>), Array(<<"dying", "hurt">>),
     Array(<<"onfire", "hurt", "onfire">>), Array(<<"nosuch", "dying">>)}
Targets == {"Actor", "Token", "Scene"}

\* the names explored: ids, labels with capitals and spaces, an effect with
\* its label, and names that are not in the list
Name(letters) == [kind |-> "string", letters |-> letters]
Effect(label) == [kind |-> "effect", letters |-> label]
ConditionNames ==
    {Name(<<"h", "u", "r", "t">>), Name(<<"H", "u", "r", "t">>), Name(<<"D", "Y", "I", "N", "G">>),
     Name(<<"O", "n", " ", "F", "i", "r", "e">>), Name(<<" ", "o", "n", "f", "i", "r", "e", " ">>),
     Effect(<<"O", "n", " ", "F", "i", "r", "e">>), Effect(<<"H", "u", "r", "t">>),
     Name(<<"h", "u", "r", "t", "s">>), Name(<<"d", "a", "z", "e", "d">>), Name(<<"o", "n", "-", "f", "i", "r", "e">>)}

\* an effect that is no condition
OtherEffect == [statusId |-> "", flagged |-> FALSE, label |-> "Armor"]

AddConditions ==
    /\ \E conditions \in ConditionArgs, target \in Targets : addConditionsIronclaw(conditions, target)
    /\ UNCHANGED <<diceVars, combatVars, dist, initiativeVars, chatVars, host>>
RemoveConditions ==
    /\ \E conditions \in ConditionArgs, target \in Targets, checkfirst \in BOOLEAN :
          removeConditionsIronclaw(conditions, target, checkfirst)
    /\ UNCHANGED <<diceVars, combatVars, dist, initiativeVars, chatVars, host>>
GetConditionByName ==
    /\ \E condition \in ConditionNames : getConditionByNameIronclaw(condition)
    /\ UNCHANGED <<diceVars, combatVars, dist, initiativeVars, chatVars, host>>

InitConditions ==
    /\ NoDice
    /\ combatants = <<>> /\ settings = Null /\ out = NoCall /\ dist = Null
    /\ NoKey /\ NoSort /\ NoRound /\ NoChat /\ NoHost
    /\ effects \in {<<>>, <<OtherEffect>>}
    /\ cond = CondCall("none", Array(<<>>), "none", FALSE, 0, Undefined)

NextConditions == AddConditions \/ RemoveConditions \/ GetConditionByName

SpecConditions == InitConditions /\ [][NextConditions]_vars

(***************************************************************************)

(* conditions.js and urbanjungle.js: condition calls that wait for the     *)
(* host and suspend at their persistence write                             *)
(***************************************************************************)
MaxCalls == 2         \* condition calls under way
MaxPolls == 2         \* checks of game.ready counted for one call (this many or more)

\* a stored ActiveEffect: the effect data with the id the host gave it
Stored(effect, id) ==
    [id |-> id, statusId |-> effect.statusId, flagged |-> effect.flagged, label |-> effect.label]

\* (variant: the calls do not look at game.ready)
NotReadyNever == FALSE

\* !game.ready, of "if (!game.ready)" and of "while (!game.ready)"
NotReady == ~host.ready

\* a call that has not run yet
NewCall(fn, conditions, target) ==
    [fn |-> fn, conditions |-> conditions, target |-> target, pc |-> "called", polls |-> 0,
     data |-> <<>>, deferred |-> FALSE, provider |-> FALSE, wrote |-> FALSE]

\* addConditionsIronclaw from the end of the wait to its next await
addAfterWait(c) ==
    IF host.useCUBConditions THEN [c EXCEPT !.pc = "done", !.provider = TRUE]
    ELSE IF getTargetActor(c.target) = Null THEN [c EXCEPT !.pc = "done"]
    ELSE LET new == prepareEffects(MatchedOfArray(usedconditions(c.conditions, c.target)))
         IN  IF Len(new) > 0
             THEN [c EXCEPT !.pc = "createEmbeddedDocuments", !.data = new]
             ELSE [c EXCEPT !.pc = "done"]

\* removeConditionsIronclaw from the end of the wait to its next await; the
\* provider is asked for the conditions or told to remove them
removeAfterWait(c) ==
    IF host.useCUBConditions THEN [c EXCEPT !.pc = "done", !.provider = TRUE]
    ELSE IF getTargetActor(c.target) = Null THEN [c EXCEPT !.pc = "done"]
    ELSE LET matching == SelectSeq(effects, LAMBDA e : HasStatus(e, AsArray(c.conditions)))
             removals == [k \in DOMAIN matching |-> matching[k].id]
         IN  IF Len(removals) > 0
             THEN [c EXCEPT !.pc = "deleteEmbeddedDocuments", !.data = removals]
             ELSE [c EXCEPT !.pc = "done"]

afterWait(c) == IF c.fn = "add" THEN addAfterWait(c) ELSE removeAfterWait(c)

hostFrame == UNCHANGED <<diceVars, combatVars, dist, initiativeVars, cond, chatVars>>

\* a call of addConditionsIronclaw or removeConditionsIronclaw runs to its
\* first await: the sleep of waitUntilReady, or its persistence write
Issue(fn, conditions, target) ==
    /\ Len(host.calls) < MaxCalls
    /\ LET c == NewCall(fn, conditions, target)
       IN  host' = [host EXCEPT !.calls =
                       Append(@, IF NotReady
                                 THEN [c EXCEPT !.pc = "sleep", !.polls = 1, !.deferred = TRUE]
                                 ELSE afterWait(c))]
    /\ UNCHANGED effects
    /\ hostFrame

\* sleep(500) of call k is over: waitUntilReady checks game.ready again
Poll(k) ==
    /\ host.calls[k].pc = "sleep"
    /\ host' = [host EXCEPT !.calls[k] =
                   IF NotReady THEN [@ EXCEPT !.polls = Min({@ + 1, MaxPolls})]
                   ELSE afterWait(@)]
    /\ UNCHANGED effects
    /\ hostFrame

\* the host has made the write of call k
Complete(k) ==
    LET c == host.calls[k]
    IN  /\ c.pc \in {"createEmbeddedDocuments", "deleteEmbeddedDocuments"}
        /\ IF c.pc = "createEmbeddedDocuments"
           THEN /\ effects' = effects \o [j \in DOMAIN c.data |-> Stored(c.data[j], host.nextId + j)]
                /\ host' = [host EXCEPT !.calls[k].pc = "done", !.calls[k].wrote = TRUE,
                                        !.nextId = @ + Len(c.data)]
           ELSE /\ effects' = SelectSeq(effects, LAMBDA e : ~Includes(c.data, e.id))
                /\ host' = [host EXCEPT !.calls[k].pc = "done", !.calls[k].wrote = TRUE]
        /\ hostFrame

\* the ready hook of the host: game.ready becomes true and stays true
Ready ==
    /\ ~host.ready
    /\ host' = [host EXCEPT !.ready = TRUE]
    /\ UNCHANGED effects
    /\ hostFrame

\* the calls explored: one condition, and two of which the first may be there
HostArgs == {Array(<<"hurt">>), Array(<<"hurt", "dying">>)}
Hurt == Stored(prepareEffects(<<conditionList[1]>>)[1], 0)

IssueAdd == \E conditions \in HostArgs : Issue("add", conditions, "Actor")
IssueRemove == \E conditions \in HostArgs : Issue("remove", conditions, "Actor")
PollReady == \E k \in DOMAIN host.calls : Poll(k)
CompleteWrite == \E k \in DOMAIN host.calls : Complete(k)

InitHost ==
    /\ NoDice
    /\ combatants = <<>> /\ settings = Null /\ out = NoCall /\ dist = Null
    /\ NoKey /\ NoSort /\ NoRound /\ NoChat
    /\ effects \in {<<>>, <<Hurt>>}
    /\ cond = CondCall("none", Array(<<>>), "none", FALSE, 0, Undefined)
    /\ host \in [ready : BOOLEAN, useCUBConditions : BOOLEAN, calls : {<<>>}, nextId : {0}]

NextHost == IssueAdd \/ IssueRemove \/ PollReady \/ CompleteWrite \/ Ready

\* timers fire and writes are answered
SpecHost ==
    /\ InitHost /\ [][NextHost]_vars
    /\ \A k \in 1..MaxCalls :
          /\ WF_vars(k \in DOMAIN host.calls /\ Poll(k))
          /\ WF_vars(k \in DOMAIN host.calls /\ Complete(k))

(***************************************************************************)

(* dicerollers.js and urbanjungle.js: the chat log, the entries the system *)
(* adds to its context menu, and the dialogs                               *)
(***************************************************************************)
MaxHistory == 2       \* chat records in the log

\* text typed into an input field: a sequence of characters
Digits == <<"0", "1", "2", "3", "4", "5", "6", "7", "8", "9">>
IsDigit(c) == \E k \in DOMAIN Digits : Digits[k] = c
DigitValue(c) == (CHOOSE k \in DOMAIN Digits : Digits[k] = c) - 1

\* Number.prototype.toString of a number that is not negative
RECURSIVE toString(_)
toString(n) ==
    IF n < 10 THEN <<Digits[n + 1]>>
    ELSE toString(n \div 10) \o <<Digits[(n % 10) + 1]>>

\* the value of the digits a text starts with
RECURSIVE LeadingValue(_, _)
LeadingValue(text, acc) ==
    IF text = <<>> \/ ~IsDigit(Head(text)) THEN acc
    ELSE LeadingValue(Tail(text), 10 * acc + DigitValue(Head(text)))

\* parseInt of a text: NaN unless it starts with a digit
parseInt(text) ==
    IF text = <<>> \/ ~IsDigit(Head(text)) THEN NaN ELSE Num(LeadingValue(text, 0))

\* let N = 0; if (TEXT.length > 0) N = parseInt(TEXT);
FieldNumber(text) == IF Len(text) > 0 THEN parseInt(text) ELSE Num(0)

\* roll.formula of a target number roll is "{" + rollstring + "}cs>" + tni;
\* formula.slice(formula.indexOf(">") + 1) is what follows the ">"
AfterGreaterThan(roll) == toString(roll.tn)

\* the hangingAttack flags of a chat record: the kind of attack (undefined
\* for none) and the success flags written for that kind
Hanging(type, success, count) == [hangingAttack |-> type, success |-> success, count |-> count]
NoHanging == Hanging(Undefined, Undefined, Undefined)

\* a record of the chat log: its data and flags, and how the current user
\* stands to it
Posted(msg, hanging, isAuthor, isContentVisible) ==
    [msg |-> msg, hanging |-> hanging, isAuthor |-> isAuthor,
     isContentVisible |-> isContentVisible]

\* (variant: the flags are written to the record they are read from)
copyHangingAttackFlagsToOrigin(origin, target, tndata) ==
    LET hangingType == origin.hanging.hangingAttack
    IN  IF hangingType = Undefined THEN [origin |-> origin, target |-> target]
        ELSE [origin |-> [origin EXCEPT !.hanging = Hanging(hangingType, Undefined, Undefined)],
              target |-> target]

\* the origin and the target record after copyHangingAttackFlags
copyHangingAttackFlags(origin, target, tndata) ==
    LET hangingType == origin.hanging.hangingAttack
        success == tndata.successes > 0
        usedsuccesses == IF success THEN tndata.successes ELSE tndata.ties
        updatedata ==
            IF tndata # Null /\ hangingType \in {Str("attack"), Str("resist")}
            THEN Hanging(hangingType, Bool(success), Num(usedsuccesses))
            ELSE Hanging(hangingType, Undefined, Undefined)
    IN  IF hangingType = Undefined THEN [origin |-> origin, target |-> target]
        ELSE [origin |-> origin, target |-> [target EXCEPT !.hanging = updatedata]]

\* the record roll.toMessage creates for the current user
Created(msg) == Posted(msg, NoHanging, TRUE, TRUE)

\* the log after a fresh roll that returned ret'
LogRoll ==
    chat' = [chat EXCEPT !.log = IF ret'.kind = "DiceReturn" /\ ret'.isSent
                                 THEN Append(@, Created(ret'.message)) ELSE @]

\* the log after a copy of record i that returned ret'
LogCopy(i, tndata) ==
    chat' = [chat EXCEPT !.log =
                IF ret'.kind = "DiceReturn" /\ ret'.isSent
                THEN LET pair == copyHangingAttackFlags(@[i], Created(ret'.message), tndata)
                     IN  Append([@ EXCEPT ![i] = pair.origin], pair.target)
                ELSE @]

\* the condition every entry ends with
MayUse(e) == (chat.user.isGM \/ e.isAuthor) /\ e.isContentVisible
\* message.getFlag("urbanjungle", "rollType"), undefined when it is not set
RollTypeOf(e) ==
    IF e.msg.type = "ROLL" /\ e.msg.flags.rollType \in {"TN", "HIGH"}
    THEN Str(e.msg.flags.rollType) ELSE Undefined

copyToTNCondition(e) ==
    /\ e.msg.type = "ROLL" /\ RollTypeOf(e) # Undefined /\ RollTypeOf(e) # Str("TN")
    /\ MayUse(e)
changeTNCondition(e) ==
    /\ e.msg.type = "ROLL" /\ RollTypeOf(e) # Undefined /\ RollTypeOf(e) = Str("TN")
    /\ MayUse(e)
copyToHighestCondition(e) ==
    /\ e.msg.type = "ROLL" /\ RollTypeOf(e) # Undefined /\ RollTypeOf(e) # Str("HIGH")
    /\ MayUse(e)

\* (variant: the originalRoll flag is not looked at)
rerollOneConditionAnyRoll(e) ==
    /\ e.msg.type = "ROLL" /\ e.msg.flags.hasOne
    /\ MayUse(e)

rerollOneCondition(e) ==
    /\ e.msg.type = "ROLL" /\ e.msg.flags.originalRoll /\ e.msg.flags.hasOne
    /\ MayUse(e)

\* the Dialog on screen
Pending == [kind |-> "pending"]
DialogOf(fn, src, state, closedBy, confirmed, resolved) ==
    [fn |-> fn, src |-> src, state |-> state, closedBy |-> closedBy,
     confirmed |-> confirmed, resolved |-> resolved]
NoDialog == DialogOf("none", 0, "closed", "none", FALSE, Undefined)

\* let confirmed = false; new Dialog(...).render(true)
render(fn, src) ==
    /\ dialog.state = "closed"
    /\ Len(chat.log) < MaxHistory
    /\ dialog' = DialogOf(fn, src, "open", "none", FALSE, Pending)
    /\ UNCHANGED <<diceVars, chat, combatVars, dist, initiativeVars, conditionVars, host>>

\* the pools and target numbers typed into the dialogs: nothing, one or two
\* d4 dice
DiceTexts == {<<>>, toString(1), toString(2)}
TNTexts == {<<>>} \cup {toString(k) : k \in 1..MaxTN}
\* findTotalDice of the one line dialogs: the pools it may read from a text
\* without dice and from a text with one d4
OneLinePools == {NoPool, <<0, 0, 0, 0, 1>>}

resolve(closedBy, confirmed, value) ==
    dialog' = [dialog EXCEPT !.state = "closed", !.closedBy = closedBy,
                             !.confirmed = confirmed, !.resolved = value]

\* the close handlers of the five dialogs when confirmed is true: the roller
\* called with what the fields hold
closeConfirmed ==
    CASE dialog.fn = "rollTargetNumberDialog" ->
           \E TNSS \in TNTexts, D4SS \in DiceTexts :
               /\ rollTargetNumber(FieldNumber(TNSS).v,
                                   <<0, 0, 0, 0, FieldNumber(D4SS).v>>, TRUE)
               /\ LogRoll
      [] dialog.fn = "rollHighestDialog" ->
           \E D4SS \in DiceTexts :
               /\ rollHighest(<<0, 0, 0, 0, FieldNumber(D4SS).v>>, TRUE)
               /\ LogRoll
      [] dialog.fn = "rollTargetNumberOneLine" ->
           \E TNSS \in TNTexts, DICE \in OneLinePools :
               /\ rollTargetNumber(FieldNumber(TNSS).v, DICE, TRUE)
               /\ LogRoll
      [] dialog.fn = "rollHighestOneLine" ->
           \E DICE \in OneLinePools :
               /\ rollHighest(DICE, TRUE)
               /\ LogRoll
      [] dialog.fn = "copyToRollTNDialog" ->
           \E DICES \in TNTexts :
               /\ copyToRollTN(FieldNumber(DICES).v, chat.log[dialog.src].msg, TRUE, FALSE)
               /\ LogCopy(dialog.src, ret'.tnData)

\* the close handlers of the five dialogs
close(closedBy, confirmed) ==
    IF confirmed
    THEN /\ closeConfirmed
         /\ resolve(closedBy, confirmed, ret')
    ELSE /\ resolve(closedBy, confirmed, Null)
         /\ UNCHANGED <<diceVars, chat, combatVars, dist, initiativeVars, conditionVars, host>>

\* the callbacks of the two buttons: what they assign to confirmed
ButtonOneCallback == TRUE

\* (variant: the cancel button confirms)
ButtonTwoCallbackConfirms == TRUE

ButtonTwoCallback == FALSE

\* a button runs its callback and closes the dialog; the window's close
\* control and the Escape key close it without a callback
ButtonOne == dialog.state = "open" /\ close("one", ButtonOneCallback)
ButtonTwo == dialog.state = "open" /\ close("two", ButtonTwoCallback)
Dismiss == dialog.state = "open" /\ close("dismiss", dialog.confirmed)

\* the macros open their dialogs on a chat log that is still empty
RollTargetNumberDialog == chat.log = <<>> /\ render("rollTargetNumberDialog", 0)
RollHighestDialog == chat.log = <<>> /\ render("rollHighestDialog", 0)
RollTargetNumberOneLine == chat.log = <<>> /\ render("rollTargetNumberOneLine", 0)
RollHighestOneLine == chat.log = <<>> /\ render("rollHighestOneLine", 0)

\* the entries of the context menu of record i
copyToTN(i) == copyToTNCondition(chat.log[i]) /\ render("copyToRollTNDialog", i)
changeTN(i) == changeTNCondition(chat.log[i]) /\ render("copyToRollTNDialog", i)
copyToHighest(i) ==
    /\ copyToHighestCondition(chat.log[i])
    /\ Len(chat.log) < MaxHistory
    /\ copyToRollHighest(chat.log[i].msg, TRUE, FALSE)
    /\ LogCopy(i, Null)
    /\ UNCHANGED dialog
rerollOne(i) ==
    /\ rerollOneCondition(chat.log[i])
    /\ Len(chat.log) < MaxHistory
    /\ IF RollTypeOf(chat.log[i]) = Str("TN")
       THEN /\ copyToRollTN(parseInt(AfterGreaterThan(chat.log[i].msg.roll)).v,
                            chat.log[i].msg, TRUE, TRUE)
            /\ LogCopy(i, ret'.tnData)
       ELSE /\ copyToRollHighest(chat.log[i].msg, TRUE, TRUE)
            /\ LogCopy(i, Null)
    /\ UNCHANGED dialog

CopyToTN == \E i \in DOMAIN chat.log : copyToTN(i)
ChangeTN == \E i \in DOMAIN chat.log : changeTN(i)
CopyToHighest == \E i \in DOMAIN chat.log : copyToHighest(i)
RerollOne == \E i \in DOMAIN chat.log : rerollOne(i)

\* records other parts of the system left in the log: attack, resist and
\* counter rolls of a weapon with their hanging flags
WeaponRolls ==
    {Posted(TNReturn(<<Die(4), Die(4)>>, 2, results, TRUE, TRUE).message,
            Hanging(Str(type), Bool(FALSE), Num(0)), isAuthor, isContentVisible) :
        results \in {<<1, 3>>, <<2, 1>>}, type \in {"attack", "resist", "counter"},
        isAuthor \in BOOLEAN, isContentVisible \in BOOLEAN}
\* a copy made earlier, a roll of the host and a text
OtherRecords ==
    {Posted(TNReturn(<<Lit(1), Lit(3)>>, 2, <<1, 3>>, FALSE, TRUE).message, NoHanging, TRUE, TRUE),
     Posted(HostRoll(<<1>>), NoHanging, TRUE, TRUE),
     Posted(TextMessage, NoHanging, TRUE, TRUE)}

InitChat ==
    /\ NoDice
    /\ combatants = <<>> /\ settings = Null /\ out = NoCall /\ dist = Null
    /\ NoKey /\ NoSort /\ NoRound /\ NoConditions /\ NoHost
    /\ chat \in [user : [isGM : BOOLEAN],
                 log : {<<>>} \cup {<<e>> : e \in WeaponRolls \cup OtherRecords}]
    /\ dialog = NoDialog

NextChat ==
    \/ RollTargetNumberDialog \/ RollHighestDialog
    \/ RollTargetNumberOneLine \/ RollHighestOneLine
    \/ ButtonOne \/ ButtonTwo \/ Dismiss
    \/ CopyToTN \/ ChangeTN \/ CopyToHighest \/ RerollOne

SpecChat == InitChat /\ [][NextChat]_vars

(***************************************************************************)

(* urbanjungle.js: one session with an encounter, the conditions of an     *)
(* actor, the dice rollers and the settings form of the combat tracker     *)
(***************************************************************************)
\* (variant: the form clears the ordering keys when it stores the settings)
updateObjectAndReset(formData) ==
    /\ settings' = formData
    /\ encounter' = [encounter EXCEPT !.initiative = [i \in Ids |-> Null],
                                      !.result = [i \in Ids |-> Null]]
    /\ UNCHANGED <<diceVars, combatants, out, dist, keyed, sorting, round,
                   conditionVars, chatVars, host>>

\* urbanjungleCombatTrackerConfig._updateObject: the form's data become the settings
updateObject(formData) ==
    /\ settings' = formData
    /\ UNCHANGED <<diceVars, combatants, out, dist, initiativeVars, conditionVars, chatVars, host>>

\* getConditionNamesIronclaw: the labels of the actor's effects, false without an actor
getConditionNamesIronclaw(target) ==
    IF getTargetActor(target) = Null THEN Bool(FALSE)
    ELSE Array([i \in DOMAIN effects |-> effects[i].label])

\* the two read-only condition calls, with what they return
has(conditions, target) ==
    /\ cond' = CondCall("has", conditions, target, FALSE, 0,
                        Bool(hasConditionsIronclaw(conditions, target)))
    /\ UNCHANGED effects
list(target) ==
    /\ cond' = CondCall("list", Array(<<>>), target, FALSE, 0, getConditionNamesIronclaw(target))
    /\ UNCHANGED effects

\* the calls of the session: one d4 at target number 2 sent to the chat, copies
\* and a reroll of an original record the last call sent, the condition "hurt"
\* on the actor, rollInitiative for the first two participants in reverse
\* order, and the form with team mode and with individual mode
SessionIdLists == {<<2, 1>>}
SessionSettings == {s \in RoundSettings : s.initType = Num(2)}
SentOriginal == ret.kind = "DiceReturn" /\ ret.isSent /\ ret.message.flags.originalRoll

SessionRoll ==
    /\ rollTargetNumber(2, OnePool, TRUE)
    /\ UNCHANGED chatVars
SessionCopy ==
    /\ SentOriginal
    /\ \/ copyToRollTN(2, ret.message, TRUE, FALSE)
       \/ copyToRollHighest(ret.message, TRUE, FALSE)
    /\ UNCHANGED chatVars
SessionReroll ==
    /\ SentOriginal
    /\ copyToRollTN(2, ret.message, TRUE, TRUE)
    /\ UNCHANGED chatVars
SessionRead ==
    /\ \/ has(Array(<<"hurt">>), "Actor")
       \/ list("Actor")
       \/ getConditionByNameIronclaw(Name(<<"H", "u", "r", "t">>))
    /\ UNCHANGED <<diceVars, combatVars, dist, initiativeVars, chatVars, host>>
SessionAdd ==
    /\ addConditionsIronclaw(Array(<<"hurt">>), "Actor")
    /\ UNCHANGED <<diceVars, combatVars, dist, initiativeVars, chatVars, host>>
SessionRemove ==
    /\ removeConditionsIronclaw(Array(<<"hurt">>), "Actor", TRUE)
    /\ UNCHANGED <<diceVars, combatVars, dist, initiativeVars, chatVars, host>>
SessionRollInitiative == \E ids \in SessionIdLists : rollInitiative(ids, TRUE)
SessionResetAll == resetAll
SessionForm == \E formData \in SessionSettings : updateObject(formData)

InitSession ==
    /\ NoDice
    /\ combatants = [i \in 1..MaxRollers |-> IF i <= 2 THEN PlayerCharacter(i) ELSE Foe(i)]
    /\ settings \in SessionSettings
    /\ out = NoCall /\ dist = Null
    /\ NoKey /\ NoSort
    /\ encounter = NewEncounter
    /\ round = NoRoundCall
    /\ effects = <<>>
    /\ cond = CondCall("none", Array(<<>>), "none", FALSE, 0, Undefined)
    /\ NoChat /\ NoHost

NextSession ==
    \/ SessionRoll \/ SessionCopy \/ SessionReroll
    \/ SessionRead \/ SessionAdd \/ SessionRemove
    \/ SessionRollInitiative \/ SessionResetAll \/ SessionForm

SpecSession == InitSession /\ [][NextSession]_vars

(***************************************************************************)

(* Properties of the dice rollers                                          *)
(***************************************************************************)
Returned == ret.kind = "DiceReturn"
TNCall == op.name \in {"rollTargetNumber", "copyToRollTN"}
HighCall == op.name \in {"rollHighest", "copyToRollHighest"}
CopyCall == op.name \in {"copyToRollTN", "copyToRollHighest"}

NumWhere(results, P(_)) == Cardinality({i \in DOMAIN results : P(results[i])})

\* C1 as stated: a target number roll reports as successes the dice whose
\* face is >= the threshold and as ties the dice whose face equals it.
C1_SuccessAtOrAbove ==
    (Returned /\ TNCall) =>
        /\ ret.tnData.successes = NumWhere(ret.roll.results, LAMBDA x : x >= op.tni)
        /\ ret.tnData.ties = NumWhere(ret.roll.results, LAMBDA x : x = op.tni)

\* C1 amended: a target number roll reports as successes the dice whose face
\* is strictly above the threshold and as ties the dice whose face equals
\* it, both counted over the rolled die sequence.
C1_SuccessAbove ==
    (Returned /\ TNCall) =>
        /\ ret.tnData.successes = NumWhere(ret.roll.results, LAMBDA x : x > op.tni)
        /\ ret.tnData.ties = NumWhere(ret.roll.results, LAMBDA x : x = op.tni)
        /\ Len(ret.roll.results) = Len(ret.roll.terms)

C1_Witness ==
    /\ Returned /\ op.name = "rollTargetNumber"
    /\ ret.tnData.successes = 1 /\ ret.tnData.ties = 1

\* the classification C2 states, the botch decided by "some die shows 1"
ClassByAnyOne(successes, ties, results) ==
    IF successes > 0 THEN [class |-> "success", n |-> successes]
    ELSE IF \E i \in DOMAIN results : results[i] = 1 THEN [class |-> "botch", n |-> 0]
    ELSE IF ties > 0 THEN [class |-> "tie", n |-> ties]
    ELSE [class |-> "failure", n |-> 0]

\* the classification with the botch decided by "the highest die shows 1"
ClassByAllOnes(successes, ties, results) ==
    IF successes > 0 THEN [class |-> "success", n |-> successes]
    ELSE IF \A i \in DOMAIN results : results[i] = 1 THEN [class |-> "botch", n |-> 0]
    ELSE IF ties > 0 THEN [class |-> "tie", n |-> ties]
    ELSE [class |-> "failure", n |-> 0]

HighestClassified ==
    (Returned /\ HighCall) =>
        /\ ret.message.flavor.n = ret.highest
        /\ \A i \in DOMAIN ret.roll.results : ret.roll.results[i] <= ret.highest
        /\ \E i \in DOMAIN ret.roll.results : ret.roll.results[i] = ret.highest
        /\ (ret.message.flavor.class = "botch") <=> (ret.highest = 1)

\* C2 as stated: success(N) if successCount > 0, else botch if any die of
\* the sequence shows 1, else tie(N) if tieCount > 0, else failure; in
\* highest mode the highest face, a botch exactly when it is 1.
C2_BotchOnAnyOne ==
    /\ (Returned /\ TNCall) =>
          ret.message.flavor
              = ClassByAnyOne(ret.tnData.successes, ret.tnData.ties, ret.roll.results)
    /\ HighestClassified

\* C2 amended: success(N) if successCount > 0, else botch if the highest die
\* is 1 (every die of the sequence shows 1), else tie(N) if tieCount > 0,
\* else failure; in highest mode the highest face, a botch exactly when it
\* is 1.
C2_BotchOnAllOnes ==
    /\ (Returned /\ TNCall) =>
          ret.message.flavor
              = ClassByAllOnes(ret.tnData.successes, ret.tnData.ties, ret.roll.results)
    /\ HighestClassified

\* a botch that is also a tie: threshold 1 and every die on 1
C2_Witness ==
    /\ Returned /\ TNCall
    /\ ret.tnData.successes = 0 /\ ret.tnData.ties > 0 /\ ret.highest = 1
    /\ ret.message.flavor.class = "botch"

\* C3: for a non-empty pool and any threshold t, tieCount + successCount is
\* at most the number of dice, and every die counted as a success has a
\* face >= t.
C3_CountsBounded ==
    (Returned /\ op.name = "rollTargetNumber") =>
        /\ ret.tnData.ties + ret.tnData.successes <= TotalDice(op.pool)
        /\ Len(ret.roll.results) = TotalDice(op.pool)
        /\ ret.tnData.successes = CountMarked(ret.roll.success)
        /\ ret.tnData.successes > 0 =>
              \A i \in DOMAIN ret.roll.results :
                  ret.roll.success[i] => ret.roll.results[i] >= op.tni

\* every die of the pool counted, none twice
C3_Witness ==
    /\ Returned /\ op.name = "rollTargetNumber"
    /\ TotalDice(op.pool) = 2
    /\ ret.tnData.successes + ret.tnData.ties = 2
    /\ ret.roll.results[1] # ret.roll.results[2]

\* C4: rollTargetNumber and rollHighest on a pool of zero dice draw nothing
\* from the randomness source, create no chat record and return null, not
\* an outcome of zero values.
C4_EmptyPoolNoRoll ==
    (op.name \in {"rollTargetNumber", "rollHighest"} /\ TotalDice(op.pool) = 0) =>
        /\ ret = Null
        /\ draws = 0
        /\ created = 0

C4_Witness ==
    /\ op.name = "rollHighest" /\ op.pool = NoPool /\ op.sendinchat
    /\ ret = Null

\* C5: a copy (rerollone = false) to either mode and any threshold has the
\* die results of the copied record, same length and same value at every
\* position.
C5_CopyKeepsResults ==
    (Returned /\ CopyCall /\ ~op.rerollone) =>
        /\ Len(ret.roll.results) = Len(message.roll.results)
        /\ \A i \in DOMAIN message.roll.results :
              ret.roll.results[i] = message.roll.results[i]
        /\ draws = 0

\* a two dice target number record copied as a highest die roll
C5_Witness ==
    /\ Returned /\ op.name = "copyToRollHighest" /\ ~op.rerollone
    /\ message.flags.rollType = "TN"
    /\ Len(message.roll.results) = 2
    /\ message.roll.results[1] # message.roll.results[2]

Ones(results) == {i \in DOMAIN results : results[i] = 1}

\* what the same call returns without rerollone
SameAsPlainCopy ==
    LET terms == [i \in DOMAIN message.roll.results |-> Lit(message.roll.results[i])]
    IN  /\ ret.roll.terms = terms
        /\ ret.roll.results = message.roll.results
        /\ ret = IF op.name = "copyToRollTN"
                 THEN TNReturn(terms, op.tni, message.roll.results, FALSE, op.sendinchat)
                 ELSE HighReturn(terms, message.roll.results, FALSE, op.sendinchat)

RerollFrame ==
    /\ Len(ret.roll.results) = Len(message.roll.results)
    /\ \A i \in DOMAIN message.roll.results :
          ret.roll.results[i] # message.roll.results[i]
              => (Ones(message.roll.results) # {} /\ i = Min(Ones(message.roll.results)))
    /\ Ones(message.roll.results) = {} => (draws = 0 /\ SameAsPlainCopy)

TNCalled == out.fn = "getInitiativeTN"
GroupCalled == out.fn = "getInitiativeGroup"
Subject == combatants[out.id]
ModeSet == settings.initType # Undefined
Mode == settings.initType.v

\* the breakpoints of the threshold, by distance band
ThresholdOf(d) ==
    CASE d \in 0..4 -> 2
      [] d \in 5..12 -> 3
      [] d \in 13..36 -> 4
      [] d \in 37..100 -> 5
      [] OTHER -> 6

\* the two sides as the modes name them
IsOwner(x) == HasActor(x) /\ x.actor.hasPlayerOwner
IsFriendly(x) == HasToken(x) /\ x.token.disposition = FRIENDLY
OpposingSide(c) ==
    IF Mode \in {0, 1}
    THEN {x \in All : IsOwner(x) # IsOwner(c)}
    ELSE {x \in All : (IsOwner(x) \/ IsFriendly(x)) # (IsOwner(c) \/ IsFriendly(c))}

Placed(S) == {x \in S : HasToken(x)}
Closest(c, S) == Min({Abs(c.token.x - x.token.x) : x \in Placed(S)})

\* C7: for a participant with actor and token, in each of the six modes, the
\* threshold is manualThreshold if that is > 0, else thresholdOf(minimum
\* distance to the participants of the other side), the sides being owner
\* vs non-owner in PcVsNpc and NpcVsPc and (owner or friendly) vs the rest
\* in the other four modes.
C7_ThresholdBySides ==
    (TNCalled /\ HasActor(Subject) /\ HasToken(Subject) /\ ModeSet) =>
        IF settings.manualTN > 0 THEN out.value = settings.manualTN
        ELSE Placed(OpposingSide(Subject)) # {}
                => out.value = ThresholdOf(Closest(Subject, OpposingSide(Subject)))

\* C8 as stated: with manualThreshold not > 0 the threshold is 2 whenever
\* there is no participant on the opposing side, or no opposing participant
\* has a token, or the participant itself has no token.
C8_DefaultTwo ==
    (TNCalled /\ settings.manualTN = 0) =>
        /\ ~HasToken(Subject) => out.value = 2
        /\ (HasActor(Subject) /\ HasToken(Subject) /\ Truthy(settings.initType)
              /\ Placed(OtherSide(Subject, All, settings)) = {}) => out.value = 2

\* C8 amended: with manualThreshold not > 0 the threshold is the default 2
\* when the participant itself has no token (or no actor, or the settings
\* hold no truthy ordering mode); when the participant has both and the
\* mode is set, but the side its threshold is measured against has no
\* participant with a token, the distance stays at the 10000 sentinel and
\* the threshold is 6.
C8_DefaultTwoOrFar ==
    (TNCalled /\ settings.manualTN = 0) =>
        /\ (~HasToken(Subject) \/ ~HasActor(Subject) \/ ~Truthy(settings.initType))
              => out.value = 2
        /\ (HasActor(Subject) /\ HasToken(Subject) /\ Truthy(settings.initType)
              /\ Placed(OtherSide(Subject, All, settings)) = {}) => out.value = 6

\* a placed participant with an actor, a mode, and nobody placed against it
C8_Witness ==
    /\ TNCalled /\ settings.manualTN = 0
    /\ HasActor(Subject) /\ HasToken(Subject) /\ settings.initType = Num(2)
    /\ OtherSide(Subject, All, settings) # {}
    /\ Placed(OtherSide(Subject, All, settings)) = {}
    /\ out.value = 6

\* C9: thresholdOf is 2 up to distance 4, 3 up to 12, 4 up to 36, 5 up to
\* 100 and 6 beyond, and never decreases as the distance grows.
C9_Breakpoints ==
    dist.tn # <<>> =>
        /\ \A i \in DOMAIN dist.d : dist.tn[i] = ThresholdOf(dist.d[i])
        /\ dist.d[1] < dist.d[2] => dist.tn[1] <= dist.tn[2]

C9_Witness ==
    /\ dist.tn # <<>>
    /\ dist.d = <<100, 101>>
    /\ dist.tn = <<5, 6>>

\* the three sides of the three-side modes: owner, friendly non-owner, other
Side3(x) == IF IsOwner(x) THEN "owner" ELSE IF IsFriendly(x) THEN "friendly" ELSE "other"
Classified(x) == HasActor(x) /\ HasToken(x)

\* C10: in team mode a participant with actor and token gets a key of {1,2}
\* in the four two-side modes and of {1,2,3} in the two three-side modes,
\* where owner, friendly non-owner and other get three distinct buckets.
C10_BucketsPerMode ==
    (GroupCalled /\ Classified(Subject) /\ ModeSet) =>
        /\ out.value \in (IF Mode \in 0..3 THEN {1, 2} ELSE {1, 2, 3})
        /\ Mode \in {4, 5} =>
              \A x \in All :
                  (Classified(x) /\ Side3(x) # Side3(Subject))
                      => getInitiativeGroup(x, settings) # out.value

\* C11: in AlliesVsEnemies and EnemiesVsAllies a friendly participant that
\* is not owner-controlled gets the bucket of the owner-controlled
\* participants and not the bucket of the non-friendly non-owner ones, the
\* bucket of the friendly side being 2 in AlliesVsEnemies and 1 in
\* EnemiesVsAllies.
C11_FriendlyWithOwners ==
    (GroupCalled /\ ModeSet /\ Mode \in {2, 3} /\ Classified(Subject)
        /\ Side3(Subject) = "friendly") =>
        /\ out.value = (IF Mode = 2 THEN 2 ELSE 1)
        /\ \A x \in All : Classified(x) =>
              /\ Side3(x) = "owner" => getInitiativeGroup(x, settings) = out.value
              /\ Side3(x) = "other" => getInitiativeGroup(x, settings) # out.value

\* a friendly non-owner asked for its bucket next to an owner and a hostile stranger
C11_Witness ==
    /\ GroupCalled /\ settings.initType = Num(2)
    /\ Classified(Subject) /\ Side3(Subject) = "friendly"
    /\ \E x \in All : Classified(x) /\ Side3(x) = "owner"
    /\ \E x \in All : Classified(x) /\ Side3(x) = "other"
    /\ out.value = 2

(***************************************************************************)
(* Properties of the individual ordering key                               *)
(***************************************************************************)
Keyed == keyed.initiative # Null
KeyedResults == keyed.initRoll.roll.results

HighestDie(results) == Max({results[i] : i \in DOMAIN results})

\* the largest result once one die showing the highest value is set aside
SecondaryTiebreakDie(results) ==
    LET tops == {i \in DOMAIN results : results[i] = HighestDie(results)}
        others == DOMAIN results \ {Min(tops)}
    IN  Max({0} \cup {results[i] : i \in others})

\* C13: in individual mode the ordering key is highestDie +
\* secondaryTiebreakDie / 20, the secondary die being the largest result
\* after skipping exactly one die equal to highestDie: 0 for a single die,
\* highestDie when two or more dice show the highest value.
C13_KeyFromTwoDice ==
    Keyed =>
        LET h == HighestDie(KeyedResults)
            s == SecondaryTiebreakDie(KeyedResults)
            tops == {i \in DOMAIN KeyedResults : KeyedResults[i] = h}
        IN  /\ keyed.initiative = Num(Twentieths(h) + s)
            /\ Len(KeyedResults) = 1 => keyed.initiative = Num(Twentieths(h))
            /\ Cardinality(tops) >= 2 => keyed.initiative = Num(Twentieths(h) + h)

\* two d12 that both show 7: the key is 7 + 7/20
C13_Witness ==
    /\ Keyed
    /\ KeyedResults = <<7, 7>>
    /\ keyed.initiative = Num(147)

\* highest die, secondary die and key of every explored initiative roll
KeyTable ==
    {<<HighestDie(r.roll.results), SecondaryTiebreakDie(r.roll.results), individualInitiative(r)>> :
        r \in UNION {InitiativeRolls(pool, 3) : pool \in KeyPools}}

\* C14: for any two pools of d4..d12 the roll with the larger highestDie has
\* the larger key, whatever the tie-breakers, and of two rolls with the same
\* highestDie the one with the larger secondary die has the larger key.
C14_KeyOrdersByHighest ==
    Keyed =>
        \A b \in KeyTable :
            LET h == HighestDie(KeyedResults)
                s == SecondaryTiebreakDie(KeyedResults)
            IN  /\ h > b[1] => keyed.initiative.v > b[3]
                /\ (h = b[1] /\ s > b[2]) => keyed.initiative.v > b[3]

\* a 12 with a 1 beside it still ranks above two 11
C14_Witness ==
    /\ Keyed
    /\ KeyedResults = <<12, 1>>
    /\ keyed.initiative = Num(241)
    /\ <<11, 11, 231>> \in KeyTable

(***************************************************************************)
(* Properties of the turn order                                            *)
(***************************************************************************)
Compared == sorting.compared.value # Null
ComparedA == sorting.collection[sorting.compared.a]
ComparedB == sorting.collection[sorting.compared.b]

\* the comparator puts a before b, or b before a
Before == sorting.compared.value.kind = "number" /\ sorting.compared.value.v < 0
After == sorting.compared.value.kind = "number" /\ sorting.compared.value.v > 0

\* the four levels as the turn order names them
ValueOf(x) == IF x.initiative = Null THEN Twentieths(-9999) ELSE x.initiative.v
OwnerControlled(x) == TokenOwner(x).v
SameUpToIdentity(a, b) ==
    /\ ValueOf(a) = ValueOf(b)
    /\ OwnerControlled(a) = OwnerControlled(b)
    /\ TokenName(a) = TokenName(b)

\* C15: the comparator ranks descending by initiativeValue, unset counting
\* as -9999 (behind every value, the -1 sentinel included); on equal values
\* an owner-controlled participant before a non-owner one; then by display
\* name ascending; then by the identity key, so that two participants with
\* different identity keys are never left unordered.
C15_FourLevels ==
    Compared =>
        LET a == ComparedA
            b == ComparedB
        IN  /\ ValueOf(a) > ValueOf(b) => Before
            /\ (a.initiative = Null /\ b.initiative # Null) => After
            /\ (ValueOf(a) = ValueOf(b) /\ OwnerControlled(a) /\ ~OwnerControlled(b)) => Before
            /\ (ValueOf(a) = ValueOf(b) /\ OwnerControlled(a) = OwnerControlled(b)
                  /\ NameRank(TokenName(a)) < NameRank(TokenName(b))) => Before
            /\ (SameUpToIdentity(a, b) /\ a.tokenId # b.tokenId) => (Before \/ After)

\* the first three levels, and the fourth for ids that read as numbers
SortFirstThreeLevels ==
    Compared =>
        LET a == ComparedA
            b == ComparedB
        IN  /\ ValueOf(a) > ValueOf(b) => Before
            /\ (a.initiative = Null /\ b.initiative # Null) => After
            /\ (ValueOf(a) = ValueOf(b) /\ OwnerControlled(a) /\ ~OwnerControlled(b)) => Before
            /\ (ValueOf(a) = ValueOf(b) /\ OwnerControlled(a) = OwnerControlled(b)
                  /\ NameRank(TokenName(a)) < NameRank(TokenName(b))) => Before
            /\ (SameUpToIdentity(a, b) /\ ToNumber(a.tokenId) # NaN /\ ToNumber(b.tokenId) # NaN
                  /\ ToNumber(a.tokenId).v < ToNumber(b.tokenId).v) => Before

\* the value _sortCombatants gives, as a sign (none for NaN)
SignOf(v) == IF v = NaN THEN NaN ELSE Num(IF v.v < 0 THEN -1 ELSE IF v.v > 0 THEN 1 ELSE 0)
Opposite(s) == IF s = NaN THEN NaN ELSE Num(0 - s.v)
Ranks(a, b) == SignOf(sortCombatants(a, b)) = Num(-1)

\* C16: _sortCombatants is a total order: compare(a, a) = 0, compare(a, b)
\* and compare(b, a) have opposite signs, it is transitive, two distinct
\* participants with equal initiativeValue, ownership flag and name are
\* still ordered by their identity key, and so the sorted turn list is the
\* same for every permutation of the input list.
C16_TotalOrder ==
    /\ Compared =>
          LET a == ComparedA
              b == ComparedB
          IN  /\ sorting.compared.a = sorting.compared.b => sorting.compared.value = Num(0)
              /\ SignOf(sorting.compared.value) \in {Num(-1), Num(0), Num(1)}
              /\ SignOf(sortCombatants(b, a)) = Opposite(SignOf(sorting.compared.value))
              /\ \A c \in {sorting.collection[i] : i \in DOMAIN sorting.collection} :
                    (Before /\ Ranks(b, c)) => Ranks(a, c)
              /\ (sorting.compared.a # sorting.compared.b /\ SameUpToIdentity(a, b)
                    /\ a.tokenId # b.tokenId) => (Before \/ After)
    /\ sorting.turns # Null =>
          \A p \in Permutations(DOMAIN sorting.collection) :
              setupTurns([i \in DOMAIN sorting.collection |-> sorting.collection[p[i]]])
                  = sorting.turns

(***************************************************************************)
(* Properties of resetAll and rollInitiative                               *)
(***************************************************************************)
Rolled == round.fn = "rollInitiative"
Reset == round.fn = "resetAll"
Listed == {round.ids[k] : k \in DOMAIN round.ids}
Owned(S) == {i \in S : combatants[i].isOwner}
Wrote == round.log # <<>>
UpdateOf(i) == {round.updates[k] : k \in {j \in DOMAIN round.updates : round.updates[j].id = i}}
ChatOf(i) == {encounter.chat[k] : k \in {j \in DOMAIN encounter.chat : encounter.chat[j].speaker = i}}
Sentinel == Num(Twentieths(-1))

\* C12: degraded inputs never fail the round but yield sentinels: in team
\* mode a listed participant of the caller without an actor or without a
\* token gets the key -1, and settings without an ordering mode give the
\* threshold 2 (manualThreshold not > 0) and the bucket -1; the values of
\* the participant are written all the same.
C12_SentinelsWritten ==
    (Rolled /\ settings.sideBased) =>
        \A i \in Owned(Listed) :
            LET c == combatants[i]
            IN  (~HasActor(c) \/ ~HasToken(c) \/ settings.initType = Undefined) =>
                    /\ ~round.raised
                    /\ encounter.initiative[i] = Sentinel
                    /\ UpdateOf(i) # {}
                    /\ (HasActor(c) /\ settings.manualTN = 0 /\ settings.initType = Undefined)
                          => \E m \in ChatOf(i) : m.roll.tn = 2

\* the same for the participants that have a token
SentinelsWithToken ==
    (Rolled /\ settings.sideBased) =>
        \A i \in Owned(Listed) :
            LET c == combatants[i]
            IN  (HasToken(c) /\ ~round.raised
                    /\ (~HasActor(c) \/ settings.initType = Undefined)) =>
                    /\ encounter.initiative[i] = Sentinel
                    /\ UpdateOf(i) # {}
                    /\ (HasActor(c) /\ settings.manualTN = 0 /\ settings.initType = Undefined)
                          => \E m \in ChatOf(i) : m.roll.tn = 2

\* the call of a step, read in the state the step leads to
ListedNext == {round'.ids[k] : k \in DOMAIN round'.ids}
UpdatedNext == {round'.updates[k].id : k \in DOMAIN round'.updates}
RolledNext == {round'.rolled[k] : k \in DOMAIN round'.rolled}
SpeakersNext == {round'.messages[k].speaker : k \in DOMAIN round'.messages}

\* C17: in rollInitiative(ids) a participant the caller does not own is
\* skipped without error, roll, write or chat record, while every owned
\* participant of the list is still processed (rolled, written, given a
\* chat record); with an empty list or no owned participant in it there is
\* no write, no turn update, no chat record, and the encounter is unchanged.
C17_SkipNotOwned ==
    [][round'.fn = "rollInitiative" =>
          /\ ~round'.raised
          /\ \A i \in ListedNext \ Owned(ListedNext) :
                /\ i \notin RolledNext \cup UpdatedNext \cup SpeakersNext
                /\ encounter'.initiative[i] = encounter.initiative[i]
                /\ encounter'.result[i] = encounter.result[i]
          /\ \A i \in Owned(ListedNext) :
                /\ i \in RolledNext \cap UpdatedNext \cap SpeakersNext
                /\ \E k \in DOMAIN round'.updates :
                      /\ round'.updates[k].id = i
                      /\ encounter'.initiative[i] = round'.updates[k].initiative
                      /\ encounter'.result[i] = round'.updates[k].result
                /\ \E k \in DOMAIN encounter'.chat : encounter'.chat[k].speaker = i
          /\ Owned(ListedNext) = {} => (round'.log = <<>> /\ encounter' = encounter)]_vars

\* the same when no owned participant of the list is without a token
SkipNotOwnedWithTokens ==
    [][(round'.fn = "rollInitiative" /\ \A i \in Owned(ListedNext) : HasToken(combatants[i])) =>
          /\ ~round'.raised
          /\ \A i \in ListedNext \ Owned(ListedNext) :
                /\ i \notin RolledNext \cup UpdatedNext \cup SpeakersNext
                /\ encounter'.initiative[i] = encounter.initiative[i]
                /\ encounter'.result[i] = encounter.result[i]
          /\ \A i \in Owned(ListedNext) :
                /\ i \in RolledNext \cap UpdatedNext \cap SpeakersNext
                /\ \E k \in DOMAIN round'.updates :
                      /\ round'.updates[k].id = i
                      /\ encounter'.initiative[i] = round'.updates[k].initiative
                      /\ encounter'.result[i] = round'.updates[k].result
                /\ \E k \in DOMAIN encounter'.chat : encounter'.chat[k].speaker = i
          /\ Owned(ListedNext) = {} => (round'.log = <<>> /\ encounter' = encounter)]_vars

\* C18: after resetAll, whatever calls of rollInitiative came before, every
\* participant has initiativeValue null and initiativeResult null and the
\* turn index is 0; a rollInitiative that writes sets both fields of every
\* participant it processed to the values computed from its new roll.
C18_ResetThenRecompute ==
    /\ Reset =>
          /\ \A i \in Ids : encounter.initiative[i] = Null /\ encounter.result[i] = Null
          /\ encounter.turn = 0
    /\ (Rolled /\ Wrote) =>
          \A k \in DOMAIN round.updates :
              LET u == round.updates[k]
              IN  /\ u.initiative # Null /\ u.result \notin {Null, Undefined}
                  /\ encounter.initiative[u.id] = u.initiative
                  /\ encounter.result[u.id] = u.result
                  /\ u.initiative = initiativeOf(combatants[u.id],
                                                 [kind |-> "DiceReturn", roll |-> round.messages[k].roll,
                                                  highest |-> HighestDie(round.messages[k].roll.results),
                                                  tnData |-> Null, message |-> NoMessage,
                                                  isSent |-> FALSE], settings)

\* a reset that follows a round of rolls
C18_Witness ==
    /\ Reset
    /\ encounter.chat # <<>>
    /\ \A i \in Ids : encounter.initiative[i] = Null /\ encounter.result[i] = Null
    /\ encounter.turn = 0

(***************************************************************************)
(* Properties of the calls of rollInitiative                               *)
(***************************************************************************)
\* the ids of the list that the caller owns, in list order
Processed == SelectSeq(round.ids, LAMBDA i : combatants[i].isOwner)
RollCalls == [k \in DOMAIN Processed |-> Called("getInitiativeRollIronclaw", Processed[k])]

\* rolls, update entries and chat data match the processed ids one to one
\* and in list order; with at least one of them the rolls are followed by
\* one updateEmbeddedDocuments, the turn update if asked for and the
\* creation of the chat records, in that order
OneBatch ==
    /\ round.rolled = Processed
    /\ Len(round.updates) = Len(Processed)
    /\ Len(round.messages) = Len(Processed)
    /\ \A k \in DOMAIN Processed :
          round.updates[k].id = Processed[k] /\ round.messages[k].speaker = Processed[k]
    /\ Processed # <<>> =>
          /\ round.trace = RollCalls
                  \o <<Called("updateEmbeddedDocuments", 0)>>
                  \o (IF round.updateTurn THEN <<Called("update", 0)>> ELSE <<>>)
                  \o <<Called("create", 0)>>
          /\ encounter.chat = round.messages
          /\ \A k \in DOMAIN round.updates :
                /\ encounter.initiative[round.updates[k].id] = round.updates[k].initiative
                /\ encounter.result[round.updates[k].id] = round.updates[k].result

\* C23: rollInitiative rolls for the listed participants of the caller one
\* after the other in list order, with one roll, one update entry and one
\* chat record each; after the last roll it issues one participant write
\* with all update entries, and it creates the chat records after that
\* write and the turn update.
C23_OneBatchedWrite == Rolled => OneBatch

\* the same when every processed participant has a token
BatchedWithTokens ==
    (Rolled /\ \A k \in DOMAIN Processed : HasToken(combatants[Processed[k]])) => OneBatch

(***************************************************************************)

(* Properties of the initiativeResult flag                                 *)
(***************************************************************************)
\* the display code of a classification of the dice rollers
CodeOf(flavor) ==
    CASE flavor.class = "success" -> Str(ToString(flavor.n))
      [] flavor.class = "botch" -> Str("B")
      [] flavor.class = "tie" -> Str("T")
      [] flavor.class = "failure" -> Str("F")

\* the classification the dice roller gave the roll of update entry k
ClassifiedRoll(k) ==
    LET roll == round.messages[k].roll
        scan == ScanTN(roll.results, roll.tn, ScanStart)
    IN  flavorStringTN(roll.total, scan.ties, scan.highest = 1)

ThresholdRolls == {k \in DOMAIN round.updates : round.messages[k].roll.mod = "cs"}

\* C24: the initiativeResult flag rollInitiative writes for a target number
\* roll is the code of the classification the dice roller gives the same
\* roll: the success count if there are successes, otherwise botch,
\* otherwise tie, otherwise fail.
C24_ResultFollowsClassification ==
    (Rolled /\ Wrote) =>
        \A k \in ThresholdRolls :
            /\ round.updates[k].result = CodeOf(ClassifiedRoll(k))
            /\ encounter.result[round.updates[k].id] = CodeOf(ClassifiedRoll(k))

\* the same for the rolls that are not both a tie and a botch
ResultFollowsUnlessTiedBotch ==
    (Rolled /\ Wrote) =>
        \A k \in ThresholdRolls :
            LET roll == round.messages[k].roll
                scan == ScanTN(roll.results, roll.tn, ScanStart)
            IN  ~(roll.total = 0 /\ scan.ties > 0 /\ scan.highest = 1) =>
                    round.updates[k].result = CodeOf(ClassifiedRoll(k))

(***************************************************************************)

(* Properties of the chat records of rollInitiative                        *)
(***************************************************************************)
WithSound == {k \in DOMAIN round.messages : round.messages[k].sound # Null}
CreatedChat == Rolled /\ Wrote /\ encounter.chat = round.messages /\ round.messages # <<>>

\* C30: when rollInitiative creates chat records, exactly one of them keeps
\* its sound and the others have sound null, also when the first ids of the
\* list are skipped because the caller does not own them.
C30_OneSound == CreatedChat => Cardinality(WithSound) = 1

\* the same when the caller owns the first id of the list
OneSoundWhenFirstOwned ==
    (CreatedChat /\ combatants[round.ids[1]].isOwner) => WithSound = {1}

\* no more than one record keeps its sound
AtMostOneSound == CreatedChat => Cardinality(WithSound) <= 1

(***************************************************************************)

(* Properties of the active turn                                           *)
(***************************************************************************)
\* the place a participant has in the turn order, counted from 0
PositionOf(id) == FindIndex(Turns(encounter.initiative), id)

\* C28: a rollInitiative call with updateTurn = true that wrote at least one
\* participant leaves the turn with the participant that had it before the
\* call (the currentId the call read at its start), at the place the new
\* keys give that participant in the turn order.
C28_TurnFollowsParticipant ==
    (Rolled /\ round.updateTurn /\ Wrote) =>
        /\ CurrentId = round.currentId
        /\ encounter.turn = PositionOf(round.currentId)

\* the participant that had the turn was written and is now second in the
\* turn order, and the turn index went there with it
C28_Witness ==
    /\ Rolled /\ round.updateTurn /\ Wrote
    /\ \E k \in DOMAIN round.updates : round.updates[k].id = round.currentId
    /\ encounter.turn = 1
    /\ CurrentId = round.currentId

(***************************************************************************)

(* Properties of the condition functions                                   *)
(***************************************************************************)
CatalogIds == {conditionList[i].id : i \in DOMAIN conditionList}
Count(effs, id) == Cardinality({i \in DOMAIN effs : effs[i].flagged /\ effs[i].statusId = id})
Requested(call) == {call.conditions.a[i] : i \in DOMAIN call.conditions.a} \cap CatalogIds
OnActor(call) == call.target \in {"Actor", "Token"}

\* C19: on the local backend add creates only the conditions of ids that
\* the target does not have yet, one effect per catalog id, so that an add
\* of ids that are all present changes nothing and writes nothing; remove
\* with checkFirst = true and none of ids present writes nothing.
C19_AddRemoveIdempotent ==
    [][/\ (cond'.fn = "add" /\ OnActor(cond')) =>
            /\ \A id \in CatalogIds :
                  Count(effects', id) =
                      IF id \in Requested(cond') /\ Count(effects, id) = 0 THEN 1
                      ELSE Count(effects, id)
            /\ (\A id \in Requested(cond') : Count(effects, id) > 0)
                  => (effects' = effects /\ cond'.writes = 0)
       /\ (cond'.fn = "remove" /\ cond'.checkfirst
              /\ \A id \in Requested(cond') : Count(effects, id) = 0)
            => (effects' = effects /\ cond'.writes = 0)]_vars

\* an add of two conditions, one of them named twice, that finds both on the actor
C19_Witness ==
    /\ cond.fn = "add" /\ OnActor(cond)
    /\ cond.conditions = Array(<<"onfire", "hurt", "onfire">>)
    /\ cond.writes = 0
    /\ Count(effects, "hurt") = 1 /\ Count(effects, "onfire") = 1

\* the name without its spaces, capitals turned into small letters
RECURSIVE Normalized(_)
Normalized(letters) ==
    IF letters = <<>> THEN <<>>
    ELSE (IF Head(letters) = " " THEN <<>> ELSE toLowerCase(<<Head(letters)>>))
            \o Normalized(Tail(letters))
EntriesNamed(letters) ==
    {conditionList[i] : i \in {j \in DOMAIN conditionList :
                                Spell(conditionList[j].id) = Normalized(letters)}}

\* C20: byId on the local backend returns the catalog descriptor whose id
\* equals the normalized input (lower case, spaces stripped) when there is
\* one, and null when no catalog entry matches.
C20_ByIdOrNull ==
    cond.fn = "byId" =>
        IF EntriesNamed(cond.conditions.letters) # {}
        THEN cond.returned \in EntriesNamed(cond.conditions.letters)
        ELSE cond.returned = Null

\* the part of C20 on the names that match
ByIdFindsEntry ==
    (cond.fn = "byId" /\ EntriesNamed(cond.conditions.letters) # {})
        => cond.returned \in EntriesNamed(cond.conditions.letters)

(***************************************************************************)
(* Properties of the dialogs and of the chat log                           *)
(***************************************************************************)
Closing == dialog.state = "open" /\ dialog'.state = "closed"
Cancelled == dialog.state = "closed" /\ dialog.closedBy \in {"two", "dismiss"}

\* C21: a dialog of the five dialog functions that is closed with the cancel
\* button, or dismissed without a button, resolves to null, and the step that
\* closes it calls no roller, draws no die and adds no chat record; a step
\* that closes a dialog and calls a roller is the press of the confirm button.
C21_CancelResolvesNull ==
    [][Closing =>
        /\ dialog'.closedBy \in {"two", "dismiss"} =>
              /\ dialog'.resolved = Null
              /\ UNCHANGED <<message, ret, draws, created, op, chat>>
        /\ (op' # op \/ draws' # draws \/ chat' # chat) =>
              dialog'.closedBy = "one" /\ dialog'.confirmed]_vars

\* each of the five dialogs has been cancelled or dismissed in some state; the
\* witness is the copy dialog of a record, dismissed
C21_Witness ==
    /\ Cancelled
    /\ dialog.closedBy = "dismiss"
    /\ dialog.fn = "copyToRollTNDialog"
    /\ dialog.resolved = Null
    /\ Len(chat.log) = 1


\* a step of one of the copy and reroll entries of the context menu
CopyStep ==
    \/ CopyToHighest
    \/ RerollOne
    \/ ButtonOne /\ dialog.fn = "copyToRollTNDialog"

LastOf(log) == log[Len(log)]

\* C22: a copy or reroll of a chat record leaves every record the log held
\* as it was (die results, rollType, label, originalRoll, hasOne and hanging
\* attack flags), and adds one new record: its roll is built from the formula
\* derived from the source's results, its originalRoll flag is false, and it
\* alone receives the hanging attack flags read from the source.
C22_CopyNeverMutates ==
    [][CopyStep =>
        /\ Len(chat'.log) = Len(chat.log) + 1
        /\ \A i \in DOMAIN chat.log : chat'.log[i] = chat.log[i]
        /\ \E i \in DOMAIN chat.log :
              /\ message' = chat.log[i].msg
              /\ LastOf(chat'.log).hanging.hangingAttack = chat.log[i].hanging.hangingAttack
        /\ LastOf(chat'.log).msg = ret'.message
        /\ ~ret'.message.flags.originalRoll
        /\ ret'.roll.terms = CopyFormula(message', op'.rerollone)]_vars

\* a weapon's attack roll was copied to a target number roll: the copy
\* carries the attack flags with its own success flags, the source keeps its
\* own
C22_Witness ==
    /\ Len(chat.log) = 2
    /\ op.name = "copyToRollTN"
    /\ chat.log[1].hanging = Hanging(Str("attack"), Bool(FALSE), Num(0))
    /\ chat.log[2].hanging = Hanging(Str("attack"), Bool(TRUE), Num(1))
    /\ chat.log[1].msg = message
    /\ chat.log[2].msg = ret.message

\* the record a step of the rerollOne entry was used on
Rerolled(i) == RerollOne /\ message' = chat.log[i].msg /\ rerollOneCondition(chat.log[i])

\* C29: the rerollOne entry acts only on a record whose originalRoll and
\* hasOne flags are true, that the user wrote or looks at as GM and whose
\* content is visible; every record a copy or a reroll adds has originalRoll
\* false and is not offered the entry; a reroll of a target number record is
\* rolled against the target number of that record.
C29_RerollOnlyOriginals ==
    [][/\ RerollOne =>
              \E i \in DOMAIN chat.log :
                  /\ Rerolled(i)
                  /\ chat.log[i].msg.flags.originalRoll /\ chat.log[i].msg.flags.hasOne
                  /\ chat.user.isGM \/ chat.log[i].isAuthor
                  /\ chat.log[i].isContentVisible
                  /\ chat.log[i].msg.flags.rollType = "TN" =>
                        /\ op'.name = "copyToRollTN"
                        /\ op'.tni = chat.log[i].msg.roll.tn
                        /\ ret'.roll.tn = chat.log[i].msg.roll.tn
       /\ CopyStep =>
              /\ ~LastOf(chat'.log).msg.flags.originalRoll
              /\ ~rerollOneCondition(LastOf(chat'.log))]_vars

\* a target number record was rerolled against its target number 3, the
\* rerolled die gave 1 again, and the new record is not offered the entry
C29_Witness ==
    /\ Len(chat.log) = 2
    /\ op.name = "copyToRollTN" /\ op.rerollone /\ op.tni = 3
    /\ chat.log[1].msg.roll.tn = 3
    /\ chat.log[2].msg = ret.message
    /\ ret.message.flags.hasOne
    /\ MayUse(chat.log[2])
    /\ ~rerollOneCondition(chat.log[2])

(***************************************************************************)
(* Properties of the condition calls that wait for the host                *)
(***************************************************************************)
CallIds == 1..MaxCalls
Under(k) == k \in DOMAIN host.calls
Deferred(k) == Under(k) /\ host.calls[k].deferred
Done(k) == Under(k) /\ host.calls[k].pc = "done"

\* C25: while game.ready is false every add and remove call sleeps in the
\* poll loop, none has written or called the provider, and no step changes
\* the effects; a call that found the flag false checks it again after each
\* sleep and, once the flag is true, goes on and runs to its end.
C25_DeferredUntilReady ==
    /\ [](~host.ready =>
            \A k \in DOMAIN host.calls :
                /\ host.calls[k].pc = "sleep" /\ host.calls[k].polls >= 1
                /\ ~host.calls[k].wrote /\ ~host.calls[k].provider)
    /\ [][~host'.ready => effects' = effects]_vars
    /\ \A k \in CallIds : (Deferred(k) /\ host.ready) ~> Done(k)

\* an add was issued before the host was ready, checked the flag again, and
\* created its effect after the flag became true
C25_Witness ==
    /\ host.ready
    /\ Deferred(1) /\ Done(1)
    /\ host.calls[1].fn = "add"
    /\ host.calls[1].polls = MaxPolls
    /\ host.calls[1].wrote
    /\ \E j \in DOMAIN effects : effects[j].id > 0 /\ effects[j].statusId = "hurt"

\* C27: on the local backend the actor never carries two effects with the
\* same status id of the catalog, however the add calls interleave.
C27_OneEffectPerStatus ==
    ~host.useCUBConditions =>
        \A id \in CatalogIds : Count(effects, id) <= 1

(***************************************************************************)
(* Properties of the ordering keys and the settings across components      *)
(***************************************************************************)
OrderingKeys == [initiative |-> encounter.initiative, result |-> encounter.result]

\* a step is told by the state it writes: the rollers write the dice state,
\* the condition functions the condition state, the form the settings, and
\* rollInitiative and resetAll the encounter and the record of their call
DiceOperation == diceVars' # diceVars
ConditionOperation == conditionVars' # conditionVars
FormOperation == settings' # settings
OrderingEngine == encounter' # encounter \/ round' # round

\* the keys after the step are those the call on record wrote
WriteBack ==
    /\ round'.fn = "rollInitiative" /\ round'.log # <<>>
    /\ OrderingKeys' = Written(OrderingKeys, round'.updates)
KeysReset ==
    /\ round'.fn = "resetAll"
    /\ OrderingKeys' = Written(OrderingKeys, [i \in Ids |-> UpdateEntry(i, Null, Null)])

\* C26: the initiative and the initiativeResult of every participant change
\* only in a step of rollInitiative that writes its update entries or in a
\* step of resetAll; the dice rollers, the condition functions and the
\* settings form leave them as they are, and rollInitiative and resetAll
\* leave the settings as they are.
C26_KeysAndSettingsFrame ==
    /\ [][(DiceOperation \/ ConditionOperation \/ FormOperation) =>
              OrderingKeys' = OrderingKeys]_vars
    /\ [][OrderingKeys' # OrderingKeys => (OrderingEngine /\ (WriteBack \/ KeysReset))]_vars
    /\ [][OrderingEngine => settings' = settings]_vars

\* both participants have keys from rollInitiative, the last dice call was a
\* reroll that sent its record, and the last condition call wrote "hurt"
C26_Witness ==
    /\ Rolled /\ Wrote
    /\ \A i \in 1..2 : encounter.initiative[i] # Null /\ encounter.result[i] # Undefined
    /\ op.name = "copyToRollTN" /\ op.rerollone /\ ret.kind = "DiceReturn"
    /\ cond.fn = "add" /\ cond.writes = 1 /\ effects # <<>>

====
